---- MODULE Spec2Model ----
(***************************************************************************)
(* Harvest engine of the Aurika pipeline                                   *)
(* (src/src/pipeline/stage_1_harvester/harvester.py, LeetCodeHarvester).   *)
(*                                                                         *)
(* The model follows the asyncio program: a step of the model is the code  *)
(* that runs between two suspension points (an awaited network call or an  *)
(* awaited sleep).  The remote GraphQL service and the caller are the      *)
(* environment: every answer of the service and every argument of the      *)
(* caller is drawn from a small set.                                       *)
(***************************************************************************)
EXTENDS Integers, Sequences, FiniteSets, TLC

(***************************************************************************)
(* Bounds of the model.                                                    *)
(***************************************************************************)
\* Size of the permit pool.  The source sets 25 (harvester.py:19); the model
\* is parametric in it and runs it scaled down so that the number of work
\* items can exceed the number of permits.
CONCURRENCY_LIMIT == 2
\* The service stops reporting hasNext=true at the MaxRequests-th list request.
MaxRequests == 3
\* Largest number of summaries the service puts on one page.
MaxPageLen == 2
\* Number of harvest_all / retry_failed calls made on one orchestrator.
MaxPasses == 3

\* Longest summary sequence handed to the grouping step on its own.
MaxSeqLen == 4
\* Deepest nesting of the trees handed to the redactor on its own.
MaxDepth == 3

\* Page size requested by the walker (harvester.py:203).
limit == 20

(***************************************************************************)
(* JSON values.  Python's dynamically typed documents are tagged:          *)
(* t is the type, v the payload.                                           *)
(***************************************************************************)
None == [t |-> "null", v |-> {}]
Str(s) == [t |-> "str", v |-> s]
Num(n) == [t |-> "int", v |-> n]
Bool(b) == [t |-> "bool", v |-> b]
List(q) == [t |-> "list", v |-> q]
Dict(f) == [t |-> "dict", v |-> f]
EmptyDict == [t |-> "dict", v |-> <<>>]

\* Python truthiness of a JSON value (`not x`, `if x:`).
Truthy(x) ==
    CASE x.t = "null" -> FALSE
      [] x.t = "bool" -> x.v
      [] x.t = "int"  -> x.v # 0
      [] x.t = "str"  -> x.v # ""
      [] x.t = "list" -> Len(x.v) > 0
      [] x.t = "dict" -> DOMAIN x.v # {}

\* `k in d` for a dict d.
HasKey(d, k) == d.t = "dict" /\ k \in DOMAIN d.v

\* d.get(k): the value, or None when the key is missing.
Get(d, k) == IF HasKey(d, k) THEN d.v[k] ELSE None

(***************************************************************************)
(* The remote service (environment).                                       *)
(***************************************************************************)
\* A submission summary as the list query returns it.  A summary whose slug
\* is empty stands for one the service sent without a usable titleSlug.
Summary(n, slug) ==
    Dict([id |-> Num(n), titleSlug |-> Str(slug), runtime |-> Str("list")])

\* The submission histories the service holds: three problems, one of them
\* submitted twice, and a summary without a slug; and a shorter one.
LongHistory ==
    << Summary(1, "two-sum"), Summary(2, "lru-cache"), Summary(3, ""),
       Summary(4, "two-sum"), Summary(5, "add-two") >>

ShortHistory ==
    << Summary(1, "two-sum"), Summary(2, "lru-cache"), Summary(3, "two-sum") >>

\* One HTTP exchange as httpx reports it: the connection failed, or a
\* response came back with a status and a body.  A body is a JSON document
\* or text that is not JSON.
Malformed == [t |-> "malformed", v |-> {}]
ConnectError == [kind |-> "connect_error", status |-> 0, body |-> None]
Response(status, body) == [kind |-> "response", status |-> status, body |-> body]

\* Bodies that carry no usable payload for the query field `field`.
ErrorsBody == Dict([errors |-> List(<< Str("rate limited") >>)])
DataNullBody == Dict([data |-> None])
PayloadNullBody(field) == Dict([data |-> Dict([f \in {field} |-> None])])
OkBody(field, payload) == Dict([data |-> Dict([f \in {field} |-> payload])])

\* The ways an exchange can deliver no payload for the query field `field`.
BadKinds ==
    { "connect_error", "http_500", "gql_errors", "malformed", "empty_doc",
      "data_null", "payload_null" }

BadExchange(kind, field) ==
    CASE kind = "connect_error" -> ConnectError
      [] kind = "http_500"      -> Response(500, EmptyDict)
      [] kind = "gql_errors"    -> Response(200, ErrorsBody)
      [] kind = "malformed"     -> Response(200, Malformed)
      [] kind = "empty_doc"     -> Response(200, EmptyDict)
      [] kind = "data_null"     -> Response(200, DataNullBody)
      [] kind = "payload_null"  -> Response(200, PayloadNullBody(field))

BadExchanges(kinds, field) == { BadExchange(k, field) : k \in kinds }

\* What an exchange carries for the query field `field`, as the service sees
\* it: "ok" (a document with the payload), "null" (a document whose payload
\* is null or empty) or "fail" (anything else).
Carries(x, field) ==
    IF /\ x.kind = "response"
       /\ x.status = 200
       /\ x.body.t = "dict"
       /\ ~HasKey(x.body, "errors")
       /\ HasKey(x.body, "data")
       /\ HasKey(x.body.v["data"], field)
    THEN IF Truthy(x.body.v["data"].v[field]) THEN "ok" ELSE "null"
    ELSE "fail"

Min(a, b) == IF a < b THEN a ELSE b

\* The summaries the service puts on the page at `off` when it sends n of
\* them; consecutive pages start `stride` summaries apart.
PageItems(h, stride, off, n) ==
    LET first == (off \div limit) * stride + 1
        last  == Min(first + n - 1, Len(h))
    IN  SubSeq(h, first, last)

ListPayload(items, hasNext) ==
    Dict([hasNext |-> Bool(hasNext), submissions |-> List(items)])

\* A dead-letter entry the caller built itself (the fields of DeadLetter).
CallerEntry ==
    [ slug |-> "two-sum", error |-> "Failed to fetch problem metadata",
      submissions |-> << Summary(7, "two-sum"), Summary(8, "two-sum"),
                         Summary(9, "two-sum") >> ]

\* The environments explored.  An environment fixes how many calls the
\* caller makes on the orchestrator and how many of them may be harvest_all
\* (each harvest_all can lengthen the accumulator, and with it the next
\* retry's fan-out), the list it may pass to retry_failed
\* besides the entries the orchestrator reported, the history the service
\* holds, the sizes of the pages it sends and the ways its answers to each
\* query can go wrong.
\* loop tells whether the caller is the command line's retry loop, which
\* calls harvest_all once and then retry_failed over the whole accumulator
\* for as long as it holds entries and the user agrees.
\*   FlakyService  : one call, against a service that sends pages of any
\*                   size up to MaxPageLen and fails in every way;
\*   RetryingCaller: up to MaxPasses calls, two of them harvest_all at
\*                   most, against a service that sends
\*                   its whole history on the first page and whose list and
\*                   metadata queries fail by a connection error;
\*   CommandLine   : the command line's loop, at most MaxPasses calls,
\*                   against the same service as RetryingCaller, whose
\*                   detail queries fail by a connection error too; the
\*                   program may be killed once during the harvest's
\*                   fan-out and started again, which is the only way to
\*                   its second harvest_all.
FlakyService ==
    [ calls |-> 1, harvests |-> 1, loop |-> FALSE,
      own_lists |-> { << CallerEntry >> },
      history |-> LongHistory, stride |-> MaxPageLen, sizes |-> 0..MaxPageLen,
      list_bad |-> BadKinds, meta_bad |-> BadKinds, detail_bad |-> BadKinds ]

RetryingCaller ==
    [ calls |-> MaxPasses, harvests |-> 2, loop |-> FALSE, own_lists |-> {},
      history |-> ShortHistory, stride |-> Len(ShortHistory),
      sizes |-> {Len(ShortHistory)},
      list_bad |-> {"connect_error"}, meta_bad |-> {"connect_error"},
      detail_bad |-> {} ]

CommandLine ==
    [ calls |-> MaxPasses, harvests |-> 2, loop |-> TRUE, own_lists |-> {},
      history |-> ShortHistory, stride |-> Len(ShortHistory),
      sizes |-> {Len(ShortHistory)},
      list_bad |-> {"connect_error"}, meta_bad |-> {"connect_error"},
      detail_bad |-> {"connect_error"} ]

Environments == { "FlakyService", "RetryingCaller", "CommandLine" }

Environment(name) ==
    IF name = "FlakyService" THEN FlakyService
    ELSE IF name = "RetryingCaller" THEN RetryingCaller
    ELSE CommandLine

(***************************************************************************)
(* LeetCodeHarvester._gql_request: what the awaited call gives its caller  *)
(* for an exchange x.  ret = "value": the call returns val (None or the    *)
(* document); ret = "raise": an exception other than httpx.HTTPError       *)
(* leaves the call.                                                        *)
(***************************************************************************)
Returns(val) == [ret |-> "value", val |-> val]
Raises(msg) == [ret |-> "raise", val |-> Str(msg)]

\* A variant that lets a connection failure escape instead of catching it.
_gql_request_uncaught(x) ==
    IF x.kind = "connect_error" THEN Raises("All connection attempts failed")
    ELSE IF x.status < 200 \/ x.status > 299 THEN Returns(None)
    ELSE IF x.body.t = "malformed" THEN Raises("Expecting value: line 1 column 1 (char 0)")
    ELSE IF HasKey(x.body, "errors") THEN Returns(None)
    ELSE Returns(x.body)

_gql_request(x) ==
    IF x.kind = "connect_error" THEN Returns(None)
    ELSE IF x.status < 200 \/ x.status > 299 THEN Returns(None)
    ELSE IF x.body.t = "malformed" THEN Raises("Expecting value: line 1 column 1 (char 0)")
    ELSE IF HasKey(x.body, "errors") THEN Returns(None)
    ELSE Returns(x.body)

(***************************************************************************)
(* Field redactor.                                                         *)
(***************************************************************************)
EXCLUDED_FIELDS ==
    { "testBodies", "testDescriptions", "testInfo",
      "fullCodeOutput", "stdOutput", "codeOutput",
      "lastTestcase", "expectedOutput",
      "totalCorrect", "totalTestcases",
      "runtimeDistribution", "memoryDistribution",
      "userAvatar", "avatar", "profileUrl",
      "codeSnippets" }

\* A variant that does not descend into sequences.
RECURSIVE _clean_data_skips_lists(_)
_clean_data_skips_lists(data) ==
    IF data.t = "dict"
    THEN Dict([k \in DOMAIN data.v \ EXCLUDED_FIELDS |->
                  _clean_data_skips_lists(data.v[k])])
    ELSE data

\* A variant that rebuilds a sequence back to front.
RECURSIVE _clean_data_reverses(_)
_clean_data_reverses(data) ==
    IF data.t = "dict"
    THEN Dict([k \in DOMAIN data.v \ EXCLUDED_FIELDS |->
                  _clean_data_reverses(data.v[k])])
    ELSE IF data.t = "list"
    THEN List([i \in DOMAIN data.v |->
                  _clean_data_reverses(data.v[Len(data.v) + 1 - i])])
    ELSE data

\* A variant that also removes the entries whose value is null.
RECURSIVE _clean_data_drops_nulls(_)
_clean_data_drops_nulls(data) ==
    IF data.t = "dict"
    THEN Dict([k \in { j \in DOMAIN data.v \ EXCLUDED_FIELDS : data.v[j].t # "null" } |->
                  _clean_data_drops_nulls(data.v[k])])
    ELSE IF data.t = "list"
    THEN List([i \in DOMAIN data.v |-> _clean_data_drops_nulls(data.v[i])])
    ELSE data

RECURSIVE _clean_data(_)
_clean_data(data) ==
    IF data.t = "dict"
    THEN Dict([k \in DOMAIN data.v \ EXCLUDED_FIELDS |-> _clean_data(data.v[k])])
    ELSE IF data.t = "list"
    THEN List([i \in DOMAIN data.v |-> _clean_data(data.v[i])])
    ELSE data

(***************************************************************************)
(* Documents the service answers with.                                     *)
(***************************************************************************)
\* The problem document of a slug.
QuestionDoc(slug) ==
    Dict([ titleSlug    |-> Str(slug),
           content      |-> Str("statement"),
           difficulty   |-> Str("Easy"),
           codeSnippets |-> List(<< Dict([lang |-> Str("py"), code |-> Str("stub")]) >>) ])

\* The detail document of a submission; `code` is abstracted to the
\* submission's id, so that the details of different submissions differ.
DetailDoc(subId) ==
    Dict([ code      |-> subId,
           runtime   |-> Str("detail"),
           stdOutput |-> Str("noise"),
           user      |-> Dict([ username |-> Str("u"),
                                profile  |-> Dict([ realName   |-> Str("n"),
                                                    userAvatar |-> Str("png") ]) ]) ])

(***************************************************************************)
(* State.                                                                  *)
(***************************************************************************)
VARIABLES
    fn,               \* the function called on its own ("none": the orchestrator runs)
    arg,              \* the argument of that call
    result,           \* its value once it has returned (Absent before)
    env,              \* the name of this behaviour's environment (never changes)
    phase,            \* orchestrator: Idle, Listing, Listed, FanningOut, Settled, Raised
    call,             \* the entry point running or last run; declined or
                      \* loop_ended once the command line has left its loop
    passes,           \* calls made so far on this orchestrator
    harvests,         \* harvest_all calls among them
    offset,           \* fetch_submission_history: local `offset`
    all_submissions,  \* fetch_submission_history: local `all_submissions`
    requests,         \* log: offsets of the list requests issued since the
                      \* walker was called (emptied when fan-out begins)
    responses,        \* log: the exchange that answered each of them
    tasks,            \* the process_problem coroutines of this pass
    semaphore,        \* self.semaphore: free permits
    failed_slugs,     \* self.failed_slugs: the dead-letter accumulator
    dlq_base,         \* history variable: Len(failed_slugs) when fan-out began
    retry_arg,        \* the list the caller passed to retry_failed
    files,            \* <slug>.json of every slug: Absent or the document
    manifest,         \* manifest.json: Absent or the document
    manifest_writes,  \* log: writes of manifest.json by this call
    failed_file,      \* failed_downloads.json: Absent or the list written
    failed_writes,    \* log: writes of failed_downloads.json by this call
    failed_before,    \* log: failed_downloads.json when this call began
    data_dir,         \* run_pipeline: the directory, file name -> document
                      \* (Absent: the directory does not exist)
    json_files,       \* run_pipeline: local `json_files`
    file_index,       \* run_pipeline: position of the for loop in json_files
    parsed_data,      \* run_pipeline: local `parsed_data` (Absent before)
    session,          \* the AsyncSession: rows changed and not yet committed
    database,         \* the rows committed to the database
    parse_calls,      \* log: the file names handed to parse_file
    etl_pc,           \* run_pipeline: idle, start, loop, load, except, done
    variant,          \* the authenticator module in use: core or auth
    attempt_number,   \* tenacity: attempts of validate() made so far
    exchanges,        \* log: the exchange that answered each attempt
    outcome,          \* what validate() gave its caller (Absent before)
    auth_pc           \* validate(): idle, attempt, waiting, done

\* The state of run_pipeline and of the authenticator.
pipeline_vars ==
    << data_dir, json_files, file_index, parsed_data, session, database,
       parse_calls, etl_pc >>

auth_vars == << variant, attempt_number, exchanges, outcome, auth_pc >>

vars == << fn, arg, result, env, phase, call, passes, harvests, offset, all_submissions, requests,
           responses, tasks, semaphore, failed_slugs, dlq_base, retry_arg,
           files, manifest, manifest_writes, failed_file,
       failed_writes, failed_before, pipeline_vars, auth_vars >>

\* The environment of this behaviour.
Env == Environment(env)

Absent == [t |-> "absent", v |-> {}]

\* Every slug the service can name.
RECURSIVE SlugsOf(_)
SlugsOf(S) ==
    IF S = << >> THEN {}
    ELSE LET s == Get(Head(S), "titleSlug")
         IN  (IF Truthy(s) THEN {s.v} ELSE {}) \cup SlugsOf(Tail(S))

SlugUniverse == SlugsOf(LongHistory) \cup SlugsOf(ShortHistory) \cup {CallerEntry.slug}

\* run_pipeline has not been called.
PipelineIdle ==
    /\ data_dir = Absent
    /\ json_files = << >>
    /\ file_index = 0
    /\ parsed_data = Absent
    /\ session = {}
    /\ database = {}
    /\ parse_calls = << >>
    /\ etl_pc = "idle"

\* validate() has not been called.
AuthIdle ==
    /\ variant = "core"
    /\ attempt_number = 0
    /\ exchanges = << >>
    /\ outcome = Absent
    /\ auth_pc = "idle"

\* The orchestrator after construction.
Init ==
    /\ PipelineIdle
    /\ AuthIdle
    /\ fn = "none"
    /\ arg = Absent
    /\ result = Absent
    /\ env \in Environments
    /\ phase = "Idle"
    /\ call = "none"
    /\ passes = 0
    /\ harvests = 0
    /\ offset = 0
    /\ all_submissions = << >>
    /\ requests = << >>
    /\ responses = << >>
    /\ tasks = << >>
    /\ semaphore = CONCURRENCY_LIMIT
    /\ failed_slugs = << >>
    /\ dlq_base = 0
    /\ retry_arg = << >>
    /\ files = [s \in SlugUniverse |-> Absent]
    /\ manifest = Absent
    /\ manifest_writes = 0
    /\ failed_file = Absent
    /\ failed_writes = 0
    /\ failed_before = Absent

(***************************************************************************)
(* History walker: fetch_submission_history.                               *)
(***************************************************************************)
\* The exchanges that may answer the list request at offset `off`.  The
\* service reports no further page at the MaxRequests-th request.
ListExchanges(e, off, nreq) ==
    BadExchanges(e.list_bad, "submissionList") \cup
    { Response(200, OkBody("submissionList",
                           ListPayload(PageItems(e.history, e.stride, off, n), hn))) :
        n \in e.sizes, hn \in { b \in BOOLEAN : b => nreq < MaxRequests } }

\* A variant that puts the newest page first.
ExtendFront(acc, submissions) == submissions \o acc

\* all_submissions.extend(submissions)
Extend(acc, submissions) == acc \o submissions

\* The loop body for the value `data` of the awaited request: what the loop
\* does next (ctl) and the list accumulated so far (acc).
\*   break : leave the loop and return acc
\*   raise : an exception leaves fetch_submission_history
\*   next  : request the following page
WalkerStep(data, acc) ==
    IF ~Truthy(data) \/ ~HasKey(data, "data")
    THEN [ctl |-> "break", acc |-> acc]
    ELSE IF ~HasKey(data.v["data"], "submissionList")
    THEN [ctl |-> "raise", acc |-> acc]
    ELSE IF ~Truthy(data.v["data"].v["submissionList"])
    THEN [ctl |-> "break", acc |-> acc]
    ELSE LET sub_list    == data.v["data"].v["submissionList"]
             submissions == sub_list.v["submissions"]
             has_next    == sub_list.v["hasNext"]
             extended    == Extend(acc, submissions.v)
         IN  IF ~Truthy(has_next)
             THEN [ctl |-> "break", acc |-> extended]
             ELSE [ctl |-> "next", acc |-> extended]

\* harvest_all, up to its first suspension: the walker issues the list
\* request at offset 0.
HarvestAll ==
    /\ phase \in {"Idle", "Settled", "Raised"}
    /\ Env.loop => phase = "Idle"
    /\ passes < Env.calls
    /\ harvests < Env.harvests
    /\ passes' = passes + 1
    /\ harvests' = harvests + 1
    /\ call' = "harvest_all"
    /\ phase' = "Listing"
    /\ offset' = 0
    /\ all_submissions' = << >>
    /\ requests' = << 0 >>
    /\ responses' = << >>
    /\ tasks' = << >>
    /\ retry_arg' = << >>
    /\ manifest_writes' = 0
    /\ failed_writes' = 0
    /\ failed_before' = failed_file
    /\ dlq_base' = Len(failed_slugs)
    /\ UNCHANGED << pipeline_vars, auth_vars, fn, arg, result, env, semaphore, failed_slugs, files, manifest, failed_file >>

\* The list request in flight is answered: one pass through the loop body,
\* then the sleep and the next request, or the return, or the exception.
ListResponse ==
    /\ phase = "Listing"
    /\ \E x \in ListExchanges(Env, offset, Len(requests)) :
         LET r == _gql_request(x)
             step == IF r.ret = "raise"
                     THEN [ctl |-> "raise", acc |-> all_submissions]
                     ELSE WalkerStep(r.val, all_submissions)
         IN  /\ responses' = Append(responses, x)
             /\ all_submissions' = step.acc
             /\ IF step.ctl = "next"
                THEN /\ offset' = offset + limit
                     /\ requests' = Append(requests, offset + limit)
                     /\ phase' = "Listing"
                ELSE /\ offset' = offset
                     /\ requests' = requests
                     /\ phase' = IF step.ctl = "raise" THEN "Raised" ELSE "Listed"
    /\ UNCHANGED << pipeline_vars, auth_vars, fn, arg, result, env, call, passes, harvests, tasks, semaphore,
                    failed_slugs, dlq_base, retry_arg, files, manifest,
                    manifest_writes, failed_file,
       failed_writes, failed_before >>

(***************************************************************************)
(* Work grouper and fan-out: harvest_all after the walker has returned.    *)
(***************************************************************************)
\* A variant that puts a slug seen for the first time in front.
AddToNewestFirst(grouped, slug, sub) ==
    IF \E i \in DOMAIN grouped : grouped[i].slug = slug
    THEN [i \in DOMAIN grouped |->
            IF grouped[i].slug = slug
            THEN [grouped[i] EXCEPT !.subs = Append(@, sub)]
            ELSE grouped[i]]
    ELSE << [slug |-> slug, subs |-> << sub >>] >> \o grouped

\* grouped[slug].append(sub) on an insertion-ordered mapping, kept as the
\* sequence of its (slug, subs) items.
AddTo(grouped, slug, sub) ==
    IF \E i \in DOMAIN grouped : grouped[i].slug = slug
    THEN [i \in DOMAIN grouped |->
            IF grouped[i].slug = slug
            THEN [grouped[i] EXCEPT !.subs = Append(@, sub)]
            ELSE grouped[i]]
    ELSE Append(grouped, [slug |-> slug, subs |-> << sub >>])

RECURSIVE GroupLoop(_, _)
GroupLoop(S, grouped) ==
    IF S = << >> THEN grouped
    ELSE LET sub  == Head(S)
             slug == Get(sub, "titleSlug")
         IN  GroupLoop(Tail(S),
                       IF Truthy(slug) THEN AddTo(grouped, slug.v, sub)
                                       ELSE grouped)

Group(S) == GroupLoop(S, << >>)

\* A process_problem coroutine that has not started running.
\*   pc : waiting (for a permit), meta, detail (request in flight),
\*        sleep (after a detail), cooldown (the finally block), done
\*   k  : index in subs of the detail request issued last (0: none yet)
\* question_data and full_submissions are the locals of the try block; they
\* are dropped when the block is left.
\* answers is a log: what each request of the task carried back; asked is a
\* log: the submissionId of each detail request the task has issued;
\* overwrote is a log: the file of the slug existed when the task wrote it.
NewTask(slug, subs) ==
    [ slug |-> slug, subs |-> subs, pc |-> "waiting", k |-> 0,
      question_data |-> None, full_submissions |-> << >>,
      outcome |-> "none", answers |-> << >>, asked |-> << >>,
      overwrote |-> FALSE ]

\* A variant that lists the slug discovered last first.
ManifestNewestFirst(slugs) ==
    Dict([problems |-> List([i \in DOMAIN slugs |-> slugs[Len(slugs) + 1 - i]]),
          count |-> Num(Len(slugs))])

\* _save_manifest
ManifestDoc(slugs) ==
    Dict([problems |-> List(slugs), count |-> Num(Len(slugs))])

\* A variant that does not wait for the walker: the tasks are created from
\* what it has collected so far.
FanOutEarly ==
    /\ phase \in { "Listing", "Listed" }
    /\ LET grouped == Group(all_submissions)
           unique_slugs == [i \in DOMAIN grouped |-> Str(grouped[i].slug)]
       IN  /\ manifest' = ManifestDoc(unique_slugs)
           /\ manifest_writes' = manifest_writes + 1
           /\ tasks' = [i \in DOMAIN grouped |->
                          NewTask(grouped[i].slug, grouped[i].subs)]
    /\ phase' = "FanningOut"
    /\ offset' = 0
    /\ all_submissions' = << >>
    /\ requests' = << >>
    /\ responses' = << >>
    /\ UNCHANGED << pipeline_vars, auth_vars, fn, arg, result, env, call, passes, harvests, semaphore,
                    failed_slugs, dlq_base, retry_arg, files, failed_file,
                    failed_writes, failed_before >>

FanOut ==
    /\ phase = "Listed"
    /\ LET grouped == Group(all_submissions)
           unique_slugs == [i \in DOMAIN grouped |-> Str(grouped[i].slug)]
       IN  /\ manifest' = ManifestDoc(unique_slugs)
           /\ manifest_writes' = manifest_writes + 1
           /\ tasks' = [i \in DOMAIN grouped |->
                          NewTask(grouped[i].slug, grouped[i].subs)]
    /\ phase' = "FanningOut"
    /\ offset' = 0
    /\ all_submissions' = << >>
    /\ requests' = << >>
    /\ responses' = << >>
    /\ UNCHANGED << pipeline_vars, auth_vars, fn, arg, result, env, call, passes, harvests, semaphore, failed_slugs, dlq_base,
                    retry_arg, files, failed_file,
       failed_writes, failed_before >>

(***************************************************************************)
(* Item processor: process_problem.                                        *)
(***************************************************************************)
MetaExchanges(e, slug) ==
    BadExchanges(e.meta_bad, "question") \cup
    { Response(200, OkBody("question", QuestionDoc(slug))) }

DetailExchanges(e, sub) ==
    BadExchanges(e.detail_bad, "submissionDetails") \cup
    { Response(200, OkBody("submissionDetails", DetailDoc(sub.v["id"]))) }

\* A variant in which the summary wins on a key both have.
MergeSummaryWins(sub, cleaned_details) ==
    Dict([k \in DOMAIN sub.v \cup DOMAIN cleaned_details.v |->
            IF k \in DOMAIN sub.v THEN sub.v[k] ELSE cleaned_details.v[k]])

\* {**sub, **cleaned_details}
Merge(sub, cleaned_details) ==
    Dict([k \in DOMAIN sub.v \cup DOMAIN cleaned_details.v |->
            IF k \in DOMAIN cleaned_details.v THEN cleaned_details.v[k]
                                              ELSE sub.v[k]])

\* The document written to <slug>.json.
FinalOutput(slug, question_data, full_submissions) ==
    Dict([ question_name    |-> Str(slug),
           problem_metadata |-> question_data,
           submissions      |-> List(full_submissions) ])

\* A variant that records the failure without the summaries.
DeadLetterBare(slug, error, subs) ==
    [slug |-> slug, error |-> error, submissions |-> << >>]

\* The dead-letter entry of a failed task.
DeadLetter(slug, error, subs) ==
    [slug |-> slug, error |-> error, submissions |-> subs]

TypeErrorMsg == "'NoneType' object is not subscriptable"

\* A variant that never makes a task wait.
PermitAlwaysFree == TRUE

\* asyncio.Semaphore: acquire() returns only while a permit is free.
PermitFree == semaphore > 0

\* A variant that enters the guarded section without taking the permit.
AcquireWithoutPermit(i) ==
    /\ phase = "FanningOut"
    /\ tasks[i].pc = "waiting"
    /\ PermitFree
    /\ tasks' = [tasks EXCEPT ![i].pc = "meta"]
    /\ UNCHANGED << pipeline_vars, auth_vars, fn, arg, result, env, phase, call, passes, harvests, offset,
                    all_submissions, requests, responses, semaphore, failed_slugs,
                    dlq_base, retry_arg, files, manifest, manifest_writes,
                    failed_file, failed_writes, failed_before >>

\* `async with self.semaphore`: a permit is taken, then the metadata
\* request is issued.
Acquire(i) ==
    /\ phase = "FanningOut"
    /\ tasks[i].pc = "waiting"
    /\ PermitFree
    /\ semaphore' = semaphore - 1
    /\ tasks' = [tasks EXCEPT ![i].pc = "meta"]
    /\ UNCHANGED << pipeline_vars, auth_vars, fn, arg, result, env, phase, call, passes, harvests, offset, all_submissions,
                    requests, responses, failed_slugs, dlq_base, retry_arg,
                    files, manifest, manifest_writes, failed_file,
       failed_writes, failed_before >>

\* A variant whose except branch swallows the failure.
FailSwallowed(T, i, error) ==
    /\ failed_slugs' = failed_slugs
    /\ tasks' = [T EXCEPT ![i].pc = "cooldown", ![i].outcome = "failed",
                          ![i].question_data = None,
                          ![i].full_submissions = << >>]
    /\ files' = files

\* A variant whose except branch replaces the accumulator by its own entry.
FailOverwrites(T, i, error) ==
    /\ failed_slugs' = << DeadLetter(T[i].slug, error, T[i].subs) >>
    /\ tasks' = [T EXCEPT ![i].pc = "cooldown", ![i].outcome = "failed",
                          ![i].question_data = None,
                          ![i].full_submissions = << >>]
    /\ files' = files

\* The except branch: the dead-letter entry is appended, then the finally
\* block starts its sleep.
Fail(T, i, error) ==
    /\ failed_slugs' = Append(failed_slugs,
                              DeadLetter(T[i].slug, error, T[i].subs))
    /\ tasks' = [T EXCEPT ![i].pc = "cooldown", ![i].outcome = "failed",
                              ![i].question_data = None,
                              ![i].full_submissions = << >>]
    /\ files' = files

\* A variant in which every task writes to the file of the task created last.
SaveToLastSlug(T, i, question_data, full_submissions) ==
    /\ files' = [files EXCEPT ![T[Len(T)].slug] =
                    FinalOutput(T[i].slug, question_data, full_submissions)]
    /\ tasks' = [T EXCEPT ![i].pc = "cooldown", ![i].outcome = "written",
                              ![i].question_data = None,
                              ![i].full_submissions = << >>,
                              ![i].overwrote = (files[T[i].slug] # Absent)]
    /\ failed_slugs' = failed_slugs

\* A variant that adds its records to those of the file already there.
SaveAppending(T, i, question_data, full_submissions) ==
    /\ files' = [files EXCEPT ![T[i].slug] =
                    IF @ = Absent
                    THEN FinalOutput(T[i].slug, question_data, full_submissions)
                    ELSE FinalOutput(T[i].slug, question_data,
                                     @.v["submissions"].v \o full_submissions)]
    /\ tasks' = [T EXCEPT ![i].pc = "cooldown", ![i].outcome = "written",
                              ![i].question_data = None,
                              ![i].full_submissions = << >>,
                              ![i].overwrote = (files[T[i].slug] # Absent)]
    /\ failed_slugs' = failed_slugs

\* The output file is written, then the finally block starts its sleep.
Save(T, i, question_data, full_submissions) ==
    /\ files' = [files EXCEPT ![T[i].slug] =
                    FinalOutput(T[i].slug, question_data, full_submissions)]
    /\ tasks' = [T EXCEPT ![i].pc = "cooldown", ![i].outcome = "written",
                              ![i].question_data = None,
                              ![i].full_submissions = << >>,
                              ![i].overwrote = (files[T[i].slug] # Absent)]
    /\ failed_slugs' = failed_slugs

\* A variant that goes on without metadata when the request yields no data.
MetaStepLenient(meta_response) ==
    IF ~Truthy(meta_response) \/ ~HasKey(meta_response, "data")
    THEN Returns(None)
    ELSE IF meta_response.v["data"].t # "dict"
    THEN Raises(TypeErrorMsg)
    ELSE IF ~HasKey(meta_response.v["data"], "question")
    THEN Raises("'question'")
    ELSE Returns(_clean_data(meta_response.v["data"].v["question"]))

\* What lines 246-250 make of the value of the metadata request:
\* the error raised, or the redacted question.
MetaStep(meta_response) ==
    IF ~Truthy(meta_response) \/ ~HasKey(meta_response, "data")
    THEN Raises("Failed to fetch problem metadata")
    ELSE IF meta_response.v["data"].t # "dict"
    THEN Raises(TypeErrorMsg)
    ELSE IF ~HasKey(meta_response.v["data"], "question")
    THEN Raises("'question'")
    ELSE Returns(_clean_data(meta_response.v["data"].v["question"]))

\* A variant that walks the summaries from the last to the first.
SubAtBackwards(t, k) == t.subs[Len(t.subs) + 1 - k]

\* `for sub in subs`: the summary of the k-th turn of the loop.
SubAt(t, k) == t.subs[k]

\* The metadata request is answered.
MetaResponse(i) ==
    /\ phase = "FanningOut"
    /\ tasks[i].pc = "meta"
    /\ \E x \in MetaExchanges(Env, tasks[i].slug) :
         LET r == _gql_request(x)
             m == IF r.ret = "raise" THEN r ELSE MetaStep(r.val)
             T == [tasks EXCEPT ![i].answers = Append(@, Carries(x, "question"))]
         IN  IF m.ret = "raise"
             THEN Fail(T, i, m.val.v)
             ELSE IF tasks[i].subs = << >>
             THEN Save(T, i, m.val, << >>)
             ELSE /\ tasks' = [T EXCEPT ![i].pc = "detail", ![i].k = 1,
                                        ![i].question_data = m.val,
                                        ![i].asked = << SubAt(T[i], 1).v["id"] >>]
                  /\ UNCHANGED << files, failed_slugs >>
    /\ UNCHANGED << pipeline_vars, auth_vars, fn, arg, result, env, phase, call, passes, harvests, offset, all_submissions,
                    requests, responses, semaphore, dlq_base, retry_arg,
                    manifest, manifest_writes, failed_file,
       failed_writes, failed_before >>

\* A variant that records an empty document when no detail came back.
DetailStepBlank(detail_response, sub) ==
    IF ~Truthy(detail_response) \/ ~HasKey(detail_response, "data")
    THEN Returns(EmptyDict)
    ELSE IF detail_response.v["data"].t # "dict"
    THEN Raises(TypeErrorMsg)
    ELSE IF ~HasKey(detail_response.v["data"], "submissionDetails")
    THEN Raises("'submissionDetails'")
    ELSE IF ~Truthy(detail_response.v["data"].v["submissionDetails"])
    THEN Returns(EmptyDict)
    ELSE Returns(Merge(sub,
                       _clean_data(detail_response.v["data"].v["submissionDetails"])))

\* A variant that merges the detail document as the service sent it.
DetailStepUncleaned(detail_response, sub) ==
    IF ~Truthy(detail_response) \/ ~HasKey(detail_response, "data")
    THEN Returns(sub)
    ELSE IF detail_response.v["data"].t # "dict"
    THEN Raises(TypeErrorMsg)
    ELSE IF ~HasKey(detail_response.v["data"], "submissionDetails")
    THEN Raises("'submissionDetails'")
    ELSE IF ~Truthy(detail_response.v["data"].v["submissionDetails"])
    THEN Returns(sub)
    ELSE Returns(Merge(sub, detail_response.v["data"].v["submissionDetails"]))

\* What lines 258-263 make of the value of a detail request for `sub`:
\* the error raised, or the record appended to full_submissions.
DetailStep(detail_response, sub) ==
    IF ~Truthy(detail_response) \/ ~HasKey(detail_response, "data")
    THEN Returns(sub)
    ELSE IF detail_response.v["data"].t # "dict"
    THEN Raises(TypeErrorMsg)
    ELSE IF ~HasKey(detail_response.v["data"], "submissionDetails")
    THEN Raises("'submissionDetails'")
    ELSE IF ~Truthy(detail_response.v["data"].v["submissionDetails"])
    THEN Returns(sub)
    ELSE Returns(Merge(sub,
                       _clean_data(detail_response.v["data"].v["submissionDetails"])))

\* The detail request in flight is answered; the task then sleeps.
DetailResponse(i) ==
    /\ phase = "FanningOut"
    /\ tasks[i].pc = "detail"
    /\ LET sub == SubAt(tasks[i], tasks[i].k)
       IN  \E x \in DetailExchanges(Env, sub) :
             LET r == _gql_request(x)
                 d == IF r.ret = "raise" THEN r ELSE DetailStep(r.val, sub)
                 T == [tasks EXCEPT
                         ![i].answers = Append(@, Carries(x, "submissionDetails"))]
             IN  IF d.ret = "raise"
                 THEN Fail(T, i, d.val.v)
                 ELSE /\ tasks' = [T EXCEPT
                                     ![i].pc = "sleep",
                                     ![i].full_submissions = Append(@, d.val)]
                      /\ UNCHANGED << files, failed_slugs >>
    /\ UNCHANGED << pipeline_vars, auth_vars, fn, arg, result, env, phase, call, passes, harvests, offset, all_submissions,
                    requests, responses, semaphore, dlq_base, retry_arg,
                    manifest, manifest_writes, failed_file,
       failed_writes, failed_before >>

\* A variant whose loop stops one summary early.
MoreSubsOffByOne(t) == t.k < Len(t.subs) - 1

\* `for sub in subs`: a summary is left after the k-th.
MoreSubs(t) == t.k < Len(t.subs)

\* The sleep after a detail ends: the next detail request is issued, or the
\* loop is over and the output file is written.
AfterSleep(i) ==
    /\ phase = "FanningOut"
    /\ tasks[i].pc = "sleep"
    /\ IF MoreSubs(tasks[i])
       THEN /\ tasks' = [tasks EXCEPT
                           ![i].pc = "detail", ![i].k = @ + 1,
                           ![i].asked =
                               Append(@, SubAt(tasks[i], tasks[i].k + 1).v["id"])]
            /\ UNCHANGED << files, failed_slugs >>
       ELSE Save(tasks, i, tasks[i].question_data, tasks[i].full_submissions)
    /\ UNCHANGED << pipeline_vars, auth_vars, fn, arg, result, env, phase, call, passes, harvests, offset, all_submissions,
                    requests, responses, semaphore, dlq_base, retry_arg,
                    manifest, manifest_writes, failed_file,
       failed_writes, failed_before >>

\* A variant that leaves the guarded section without giving the permit back.
ReleaseKeepsPermit(i) ==
    /\ phase = "FanningOut"
    /\ tasks[i].pc = "cooldown"
    /\ tasks' = [tasks EXCEPT ![i].pc = "done"]
    /\ UNCHANGED << pipeline_vars, auth_vars, fn, arg, result, env, phase, call, passes, harvests, offset,
                    all_submissions, requests, responses, semaphore, failed_slugs,
                    dlq_base, retry_arg, files, manifest, manifest_writes,
                    failed_file, failed_writes, failed_before >>

\* The sleep of the finally block ends and the permit is given back.
Release(i) ==
    /\ phase = "FanningOut"
    /\ tasks[i].pc = "cooldown"
    /\ semaphore' = semaphore + 1
    /\ tasks' = [tasks EXCEPT ![i].pc = "done"]
    /\ UNCHANGED << pipeline_vars, auth_vars, fn, arg, result, env, phase, call, passes, harvests, offset, all_submissions,
                    requests, responses, failed_slugs, dlq_base, retry_arg,
                    files, manifest, manifest_writes, failed_file,
       failed_writes, failed_before >>

(***************************************************************************)
(* Settling and the retry entry point.                                     *)
(***************************************************************************)
\* A variant that writes the accumulator even when it is empty.
SaveFailedAlways(old) == List(failed_slugs)

\* A variant that never writes.
SaveFailedNever(old) == old

\* _save_failed: the content of failed_downloads.json after the call, `old`
\* being its content before.
SaveFailed(old) == IF failed_slugs = << >> THEN old ELSE List(failed_slugs)

\* gather() has returned: _save_failed, then the call returns.
Settle ==
    /\ phase = "FanningOut"
    /\ \A i \in DOMAIN tasks : tasks[i].pc = "done"
    /\ failed_file' = SaveFailed(failed_file)
    /\ failed_writes' = failed_writes + (IF SaveFailed(Absent) = Absent THEN 0 ELSE 1)
    /\ phase' = "Settled"
    /\ UNCHANGED << pipeline_vars, auth_vars, fn, arg, result, env, call, passes, harvests, offset, all_submissions, requests,
                    responses, tasks, semaphore, failed_slugs, dlq_base,
                    retry_arg, files, manifest, manifest_writes, failed_before >>

\* The command line is at the test of its while statement: the call it made
\* last has returned.
InLoop == phase = "Settled" /\ call \in { "harvest_all", "retry_failed" }

\* A variant of the loop's test that goes on when nothing is left.
WhileConditionInverted == failed_slugs = << >>

\* `while failed_items:` in the command line; failed_items is the list
\* harvest_all returned, then harvester.failed_slugs after each retry.
WhileCondition == failed_slugs # << >>

\* The lists a caller passes to retry_failed: all the entries the
\* accumulator holds (the command line's loop passes nothing else, and only
\* after a pass that left entries), one of them, the empty list, or a list
\* of its own.
RetryInputs ==
    IF Env.loop
    THEN IF InLoop /\ WhileCondition THEN { failed_slugs } ELSE {}
    ELSE { failed_slugs, << >> }
            \cup { << failed_slugs[n] >> : n \in DOMAIN failed_slugs }
            \cup Env.own_lists

\* A variant that keeps the accumulator.
ResetKeepsEntries == failed_slugs

\* self.failed_slugs = []
ResetFailed == << >>

\* A variant that retries what failed_downloads.json lists.
RetryTasksFromFile(failed_items) ==
    IF failed_file.t = "list"
    THEN [i \in DOMAIN failed_file.v |->
            NewTask(failed_file.v[i].slug, failed_file.v[i].submissions)]
    ELSE << >>

\* The coroutines retry_failed creates, one per item of the list it is given.
RetryTasks(failed_items) ==
    [i \in DOMAIN failed_items |->
        NewTask(failed_items[i].slug, failed_items[i].submissions)]

RetryFailed ==
    /\ phase \in {"Idle", "Settled", "Raised"}
    /\ passes < Env.calls
    /\ passes' = passes + 1
    /\ call' = "retry_failed"
    /\ \E failed_items \in RetryInputs :
         /\ retry_arg' = failed_items
         /\ IF failed_items = << >>
            THEN /\ phase' = "Settled"
                 /\ tasks' = << >>
                 /\ failed_slugs' = failed_slugs
                 /\ dlq_base' = Len(failed_slugs)
            ELSE /\ phase' = "FanningOut"
                 /\ failed_slugs' = ResetFailed
                 /\ dlq_base' = Len(ResetFailed)
                 /\ tasks' = RetryTasks(failed_items)
    /\ offset' = 0
    /\ all_submissions' = << >>
    /\ requests' = << >>
    /\ responses' = << >>
    /\ manifest_writes' = 0
    /\ failed_writes' = 0
    /\ failed_before' = failed_file
    /\ UNCHANGED << pipeline_vars, auth_vars, fn, arg, result, env, harvests, semaphore, files, manifest, failed_file >>

\* The program is killed while the tasks of its harvest run and is started
\* again: a new client and a new orchestrator over the directory the killed
\* process wrote to.
Interrupt ==
    /\ Env.loop
    /\ phase = "FanningOut"
    /\ call = "harvest_all"
    /\ harvests < Env.harvests
    /\ phase' = "Idle"
    /\ call' = "none"
    /\ offset' = 0
    /\ all_submissions' = << >>
    /\ requests' = << >>
    /\ responses' = << >>
    /\ tasks' = << >>
    /\ semaphore' = CONCURRENCY_LIMIT
    /\ failed_slugs' = << >>
    /\ dlq_base' = 0
    /\ retry_arg' = << >>
    /\ manifest_writes' = 0
    /\ failed_writes' = 0
    /\ failed_before' = Absent
    /\ UNCHANGED << pipeline_vars, auth_vars, fn, arg, result, env, passes, harvests, files, manifest,
                    failed_file >>

\* The command line's loop: the user answers no to the retry question.
Decline ==
    /\ Env.loop
    /\ InLoop
    /\ WhileCondition
    /\ call' = "declined"
    /\ UNCHANGED << pipeline_vars, auth_vars, fn, arg, result, env, phase, passes, harvests, offset,
                    all_submissions, requests, responses, tasks, semaphore,
                    failed_slugs, dlq_base, retry_arg, files, manifest,
                    manifest_writes, failed_file, failed_writes, failed_before >>

\* The command line's loop: the test of the while statement fails.
LoopEnd ==
    /\ Env.loop
    /\ InLoop
    /\ ~WhileCondition
    /\ call' = "loop_ended"
    /\ UNCHANGED << pipeline_vars, auth_vars, fn, arg, result, env, phase, passes, harvests, offset,
                    all_submissions, requests, responses, tasks, semaphore,
                    failed_slugs, dlq_base, retry_arg, files, manifest,
                    manifest_writes, failed_file, failed_writes, failed_before >>

Next ==
    \/ HarvestAll
    \/ ListResponse
    \/ FanOut
    \/ \E i \in DOMAIN tasks : Acquire(i)
    \/ \E i \in DOMAIN tasks : MetaResponse(i)
    \/ \E i \in DOMAIN tasks : DetailResponse(i)
    \/ \E i \in DOMAIN tasks : AfterSleep(i)
    \/ \E i \in DOMAIN tasks : Release(i)
    \/ Settle
    \/ RetryFailed
    \/ Decline
    \/ LoopEnd
    \/ Interrupt

Spec == Init /\ [][Next]_vars

(***************************************************************************)
(* Fairness: the event loop runs every task that can run, and every        *)
(* request and sleep returns.                                              *)
(***************************************************************************)
\* The single call against the service that fails in every way, and the
\* command line's loop.
FairInit == Init /\ env \in { "FlakyService", "CommandLine" }

FairSpec == FairInit /\ [][Next]_vars /\ WF_vars(Next)

(***************************************************************************)
(* The pure steps called on their own: the grouping step of harvest_all    *)
(* and _clean_data, each applied once to an argument drawn from a bounded  *)
(* family.  The orchestrator stays as constructed.                         *)
(***************************************************************************)
RECURSIVE SeqsUpTo(_, _)
SeqsUpTo(P, n) ==
    IF n = 0 THEN { << >> }
    ELSE LET R == SeqsUpTo(P, n - 1)
         IN  R \cup { Append(q, x) : q \in R, x \in P }

\* Summaries the list query can deliver: with a slug, with an empty slug,
\* with a null slug and without the titleSlug field.
SummaryPool ==
    { Summary(1, "two-sum"), Summary(2, "lru-cache"), Summary(3, ""),
      Summary(4, "two-sum"),
      Dict([id |-> Num(5), titleSlug |-> None, runtime |-> Str("list")]),
      Dict([id |-> Num(6), runtime |-> Str("list")]) }

SummarySeqs == SeqsUpTo(SummaryPool, MaxSeqLen)

Groups(G) == [t |-> "groups", v |-> G]

orchestrator ==
    << env, phase, call, passes, harvests, offset, all_submissions, requests,
       responses, tasks, semaphore, failed_slugs, dlq_base, retry_arg,
       files, manifest, manifest_writes, failed_file,
       failed_writes, failed_before >>

\* harvest_all lines 300-305 applied to the sequence `arg`.
GroupCall ==
    /\ fn = "group"
    /\ result.t = "absent"
    /\ result' = Groups(Group(arg.v))
    /\ UNCHANGED << fn, arg, orchestrator, pipeline_vars, auth_vars >>

\* Trees of maps, sequences and scalars, nested up to depth d.  A map has at
\* most two entries and a sequence at most two elements, one of them a
\* scalar; the keys are two the redactor keeps and one it removes.
Scalars == { Num(1), None }

TreeKeys == { "code", "user", "avatar" }

\* The map with the entries k1: v and k2: s.
Pair(k1, v, k2, s) == Dict([k \in {k1, k2} |-> IF k = k1 THEN v ELSE s])

\* The maps and sequences that have the tree v as their deepest child.
Around(v) ==
    { Dict([k \in {k1} |-> v]) : k1 \in TreeKeys }
        \cup { Pair(k1, v, "avatar", Num(1)) : k1 \in {"code", "user"} }
        \cup { Pair("avatar", v, "code", Num(1)),
               Pair("code", v, "user", Num(1)),
               Pair("user", v, "code", Num(1)),
               List(<< v >>), List(<< v, Num(1) >>), List(<< None, v >>) }

RECURSIVE Trees(_)
Trees(d) ==
    IF d = 0 THEN Scalars
    ELSE Scalars \cup { EmptyDict, List(<< >>) }
                 \cup UNION { Around(v) : v \in Trees(d - 1) }

\* _clean_data applied to the tree `arg`.
CleanCall ==
    /\ fn = "_clean_data"
    /\ result.t = "absent"
    /\ result' = _clean_data(arg)
    /\ UNCHANGED << fn, arg, orchestrator, pipeline_vars, auth_vars >>

FunctionInit ==
    /\ PipelineIdle
    /\ AuthIdle
    /\ \/ fn = "group" /\ arg \in { List(S) : S \in SummarySeqs }
       \/ fn = "_clean_data" /\ arg \in Trees(MaxDepth)
    /\ result = Absent
    /\ env = "FlakyService"
    /\ phase = "Idle"
    /\ call = "none"
    /\ passes = 0
    /\ harvests = 0
    /\ offset = 0
    /\ all_submissions = << >>
    /\ requests = << >>
    /\ responses = << >>
    /\ tasks = << >>
    /\ semaphore = CONCURRENCY_LIMIT
    /\ failed_slugs = << >>
    /\ dlq_base = 0
    /\ retry_arg = << >>
    /\ files = [s \in SlugUniverse |-> Absent]
    /\ manifest = Absent
    /\ manifest_writes = 0
    /\ failed_file = Absent
    /\ failed_writes = 0
    /\ failed_before = Absent

FunctionNext == GroupCall \/ CleanCall

FunctionSpec == FunctionInit /\ [][FunctionNext]_vars

(***************************************************************************)
(* The ETL run: run_pipeline over the directory the harvester wrote,       *)
(* parse_file and load_data.  One coroutine, one session.                  *)
(***************************************************************************)
\* The orchestrator as constructed and left alone, under a run of another
\* entry point of the command line.
Constructed ==
    /\ fn = "none"
    /\ arg = Absent
    /\ result = Absent
    /\ env = "FlakyService"
    /\ phase = "Idle"
    /\ call = "none"
    /\ passes = 0
    /\ harvests = 0
    /\ offset = 0
    /\ all_submissions = << >>
    /\ requests = << >>
    /\ responses = << >>
    /\ tasks = << >>
    /\ semaphore = CONCURRENCY_LIMIT
    /\ failed_slugs = << >>
    /\ dlq_base = 0
    /\ retry_arg = << >>
    /\ files = [s \in SlugUniverse |-> Absent]
    /\ manifest = Absent
    /\ manifest_writes = 0
    /\ failed_file = Absent
    /\ failed_writes = 0
    /\ failed_before = Absent

\* The files of the directory: the output file of a problem, and the two
\* checkpoint files of the harvester.
ProblemFileNames == { "two-sum.json", "lru-cache.json" }

CheckpointNames == { "manifest.json", "failed_downloads.json" }

\* The slug and the questionId of the problem of an output file.
SlugOfFile == ("two-sum.json" :> "two-sum") @@ ("lru-cache.json" :> "lru-cache")

QuestionIdOfFile == ("two-sum.json" :> "1") @@ ("lru-cache.json" :> "146")

\* problem_metadata as the selectProblem query delivers it.
ProblemMetadata(name) ==
    Dict([ questionId |-> Str(QuestionIdOfFile[name]),
           title      |-> Str(SlugOfFile[name]),
           titleSlug  |-> Str(SlugOfFile[name]),
           difficulty |-> Str("Easy") ])

\* A submission record merged with its detail document, and the bare
\* summary kept when the detail request failed.
FullRecord(name, id) ==
    Dict([ id            |-> Str(id),
           statusDisplay |-> Str("Accepted"),
           lang          |-> Str("python3"),
           timestamp     |-> Str("1700000000"),
           statusCode    |-> Num(10),
           code          |-> Str("pass"),
           user          |-> Dict([username |-> Str("u")]) ])

BareRecord(name, id) ==
    Dict([ id            |-> Str(id),
           statusDisplay |-> Str("Accepted"),
           lang          |-> Str("python3"),
           timestamp     |-> Str("1700000001") ])

\* The documents process_problem can have written to an output file:
\* complete; with a null problem_metadata; with a bare summary among the
\* submissions.
ProblemDocs(name) ==
    LET id == QuestionIdOfFile[name]
    IN  { FinalOutput(SlugOfFile[name], ProblemMetadata(name),
                      << FullRecord(name, id) >>),
          FinalOutput(SlugOfFile[name], None, << FullRecord(name, id) >>),
          FinalOutput(SlugOfFile[name], ProblemMetadata(name),
                      << FullRecord(name, id), BareRecord(name, id) >>) }

\* What _save_manifest and _save_failed write.
ManifestFile == ManifestDoc(<< "two-sum", "lru-cache" >>)

FailedDownloadsFile ==
    List(<< DeadLetter("add-two", "Metadata fetch failed", << >>) >>)

DocsOf(name) ==
    CASE name = "manifest.json"         -> { ManifestFile }
      [] name = "failed_downloads.json" -> { FailedDownloadsFile }
      [] OTHER                          -> ProblemDocs(name)

\* The directories run_pipeline is started on.
Directories ==
    UNION { { d \in [N -> UNION { DocsOf(n) : n \in N }] :
                \A n \in N : d[n] \in DocsOf(n) } :
            N \in SUBSET (ProblemFileNames \cup CheckpointNames) }

\* Rows of the tables users, problems and submissions.
UserRow(username) == [table |-> "users", key |-> username, problem |-> ""]
ProblemRow(qid) == [table |-> "problems", key |-> qid, problem |-> qid]
SubmissionRow(id, qid) == [table |-> "submissions", key |-> id, problem |-> qid]

\* The fields ProblemSchema and SubmissionSchema require.
RequiredOfProblem == { "questionId", "title", "titleSlug", "difficulty" }

RequiredOfSubmission ==
    { "id", "statusDisplay", "statusCode", "lang", "code", "timestamp" }

Validates(d, required) ==
    d.t = "dict" /\ \A k \in required : Get(d, k).t # "null"

\* parse_file applied to the document of a file: the parsed models, or the
\* exception.  The order of the submissions (attempt_number) is left out.
parse_file(data) ==
    IF data.t # "dict" THEN Raises("AttributeError")
    ELSE
      LET submissions_data ==
              IF HasKey(data, "submissions") THEN data.v["submissions"].v ELSE << >>
          user_data ==
              IF submissions_data = << >> THEN EmptyDict
              ELSE IF HasKey(submissions_data[1], "user")
                   THEN submissions_data[1].v["user"] ELSE EmptyDict
          username ==
              IF HasKey(user_data, "username") THEN user_data.v["username"].v
                                               ELSE "unknown"
          problem_metadata ==
              IF HasKey(data, "problem_metadata") THEN data.v["problem_metadata"]
                                                  ELSE EmptyDict
      IN  IF problem_metadata.t # "dict" THEN Raises("TypeError")
          ELSE IF ~Validates(problem_metadata, RequiredOfProblem)
          THEN Raises("ValidationError")
          ELSE IF \E k \in DOMAIN submissions_data :
                      ~Validates(submissions_data[k], RequiredOfSubmission)
          THEN Raises("ValidationError")
          ELSE Returns([ user        |-> username,
                         problem     |-> problem_metadata.v["questionId"].v,
                         submissions |-> { submissions_data[k].v["id"].v :
                                             k \in DOMAIN submissions_data } ])

\* The filter of run_pipeline on the names rglob delivers.
InputFilter(name) == name # "manifest.json"

\* The orders in which rglob can deliver the files of a set.
Orderings(S) ==
    { q \in [1..Cardinality(S) -> S] : \A i, j \in DOMAIN q : q[i] = q[j] => i = j }

\* run_pipeline up to the for loop.
RunPipeline ==
    /\ etl_pc = "start"
    /\ IF data_dir = Absent
       THEN /\ json_files' = << >>
            /\ file_index' = 0
            /\ etl_pc' = "done"
       ELSE \E order \in Orderings({ n \in DOMAIN data_dir : InputFilter(n) }) :
                /\ json_files' = order
                /\ file_index' = IF order = << >> THEN 0 ELSE 1
                /\ etl_pc' = IF order = << >> THEN "done" ELSE "loop"
    /\ UNCHANGED << data_dir, parsed_data, session, database, parse_calls >>
    /\ UNCHANGED << auth_vars, fn, arg, result, orchestrator >>

\* The log entry of the iteration under way.
\* `pending` keeps the changes the session held when the iteration raised.
Iteration(name, how) == [file |-> name, result |-> how, pending |-> {}]

Ended(log, how, rows) ==
    [log EXCEPT ![Len(log)].result = how, ![Len(log)].pending = rows]

\* One iteration up to the await of load_data: parse_file.
ParseFile ==
    /\ etl_pc = "loop"
    /\ file_index \in DOMAIN json_files
    /\ LET name == json_files[file_index]
           r    == parse_file(data_dir[name])
       IN  IF r.ret = "value"
           THEN /\ parsed_data' = r.val
                /\ parse_calls' = Append(parse_calls, Iteration(name, "parsed"))
                /\ etl_pc' = "load"
           ELSE /\ parsed_data' = Absent
                /\ parse_calls' = Append(parse_calls, Iteration(name, "parse_error"))
                /\ etl_pc' = "except"
    /\ UNCHANGED << data_dir, json_files, file_index, session, database >>
    /\ UNCHANGED << auth_vars, fn, arg, result, orchestrator >>

\* The statements of load_data that reach the database, in order: the
\* select or flush of the user, the upsert of the problem, the inserts of
\* the submissions, the commit.
Statements == << "user", "problem", "submissions", "commit" >>

\* The rows the first n statements of load_data change.
Changes(pd, n) ==
    (IF n >= 1 /\ UserRow(pd.user) \notin database \cup session
        THEN { UserRow(pd.user) } ELSE {})
        \cup (IF n >= 2 THEN { ProblemRow(pd.problem) } ELSE {})
        \cup (IF n >= 3 THEN { SubmissionRow(id, pd.problem) : id \in pd.submissions }
                        ELSE {})

\* load_data: every statement passes and the commit makes the session's
\* changes durable (fault = 0), or statement `fault` raises and the changes
\* of the statements before it stay pending in the session.
LoadData(fault) ==
    /\ etl_pc = "load"
    /\ IF fault = 0
       THEN /\ database' = database \cup session \cup Changes(parsed_data, 3)
            /\ session' = {}
            /\ parse_calls' = Ended(parse_calls, "loaded", {})
            /\ file_index' = file_index + 1
            /\ etl_pc' = "loop"
       ELSE /\ session' = session \cup Changes(parsed_data, fault - 1)
            /\ parse_calls' = Ended(parse_calls, "load_error", session')
            /\ etl_pc' = "except"
            /\ UNCHANGED << database, file_index >>
    /\ UNCHANGED << data_dir, json_files, parsed_data >>
    /\ UNCHANGED << auth_vars, fn, arg, result, orchestrator >>

\* A variant of the except branch without the rollback.
ExceptWithoutRollback ==
    /\ etl_pc = "except"
    /\ file_index' = file_index + 1
    /\ etl_pc' = "loop"
    /\ UNCHANGED << data_dir, json_files, parsed_data, session, database, parse_calls >>
    /\ UNCHANGED << auth_vars, fn, arg, result, orchestrator >>

\* except Exception: rollback, continue.
Except ==
    /\ etl_pc = "except"
    /\ session' = {}
    /\ file_index' = file_index + 1
    /\ etl_pc' = "loop"
    /\ UNCHANGED << data_dir, json_files, parsed_data, database, parse_calls >>
    /\ UNCHANGED << auth_vars, fn, arg, result, orchestrator >>

\* The for loop is exhausted: the session closes and run_pipeline returns.
LoopExit ==
    /\ etl_pc = "loop"
    /\ file_index > Len(json_files)
    /\ etl_pc' = "done"
    /\ UNCHANGED << data_dir, json_files, file_index, parsed_data, session,
                    database, parse_calls >>
    /\ UNCHANGED << auth_vars, fn, arg, result, orchestrator >>

\* The database before the run: empty, or holding the user of an earlier run.
InitialDatabases == { {}, { UserRow("u") } }

PipelineInit ==
    /\ Constructed
    /\ AuthIdle
    /\ data_dir \in Directories \cup { Absent }
    /\ json_files = << >>
    /\ file_index = 0
    /\ parsed_data = Absent
    /\ session = {}
    /\ database \in InitialDatabases
    /\ parse_calls = << >>
    /\ etl_pc = "start"

PipelineNext ==
    \/ RunPipeline
    \/ ParseFile
    \/ \E fault \in 0..Len(Statements) : LoadData(fault)
    \/ Except
    \/ LoopExit

PipelineSpec == PipelineInit /\ [][PipelineNext]_vars

(***************************************************************************)
(* Credential validation: LeetCodeAuthenticator.validate under tenacity's  *)
(* retry decorator, in the two authenticator modules of the repository.    *)
(***************************************************************************)
\* stop_after_attempt(3)
stop_after_attempt == 3

\* The authenticator modules: stage_1_harvester/authentication/core.py and
\* harvester/authentication/auth.py.
Variants == { "core", "auth" }

\* The body of a userStatus answer.
UserStatusBody(username, isSignedIn) ==
    OkBody("userStatus", Dict([ username   |-> Str(username),
                                isSignedIn |-> Bool(isSignedIn) ]))

\* An answer that carries GraphQL errors beside the data of a signed-in
\* session (a partial result).
ErrorsWithData ==
    Dict([ errors |-> List(<< Str("isPremium unavailable") >>),
           data   |-> UserStatusBody("u", TRUE).v["data"] ])

\* Request errors of httpx (httpx.RequestError): the connection fails, the
\* read times out, the peer breaks the protocol.
ReadTimeout == [kind |-> "read_timeout", status |-> 0, body |-> None]

RemoteProtocolError == [kind |-> "protocol_error", status |-> 0, body |-> None]

RequestErrors == { ConnectError, ReadTimeout, RemoteProtocolError }

\* The exchanges that can answer the userStatus request.
AuthExchanges ==
    RequestErrors \cup
    { Response(200, UserStatusBody("u", TRUE)),
      Response(200, UserStatusBody("", FALSE)),
      Response(403, Malformed),
      Response(500, EmptyDict),
      Response(200, ErrorsBody),
      Response(200, ErrorsWithData),
      Response(200, DataNullBody),
      Response(200, Malformed) }

\* GraphQLResponse.model_validate: data.userStatus with a string username
\* and a boolean isSignedIn.
ModelValidates(json_data) ==
    /\ json_data.t = "dict"
    /\ Get(json_data, "data").t = "dict"
    /\ Get(Get(json_data, "data"), "userStatus").t = "dict"
    /\ Get(Get(Get(json_data, "data"), "userStatus"), "username").t = "str"
    /\ Get(Get(Get(json_data, "data"), "userStatus"), "isSignedIn").t = "bool"

UserStatusOf(json_data) == json_data.v["data"].v["userStatus"]

\* One execution of the body of validate() for the exchange x: the username
\* returned or the class of the exception that leaves it.  core.py decodes
\* the body and looks for `errors` before it validates; auth.py validates
\* the raw content.
validate(v, x) ==
    IF x.kind # "response" THEN Raises("RequestError")
    ELSE IF x.status < 200 \/ x.status > 299 THEN Raises("AuthenticationError")
    ELSE IF x.body.t = "malformed"
    THEN (IF v = "core" THEN Raises("JSONDecodeError")
                        ELSE Raises("AuthenticationError"))
    ELSE IF v = "core" /\ HasKey(x.body, "errors") THEN Raises("AuthenticationError")
    ELSE IF ~ModelValidates(x.body) THEN Raises("AuthenticationError")
    ELSE IF ~UserStatusOf(x.body).v["isSignedIn"].v THEN Raises("AuthenticationError")
    ELSE Returns(UserStatusOf(x.body).v["username"])

\* retry_if_exception_type(httpx.RequestError)
RetryIf(r) == r = Raises("RequestError")

\* One attempt: tenacity calls validate(); an exception the retry condition
\* selects is followed by a wait unless the attempts are used up, anything
\* else goes to the caller (reraise=True: the exception itself).
Attempt ==
    /\ auth_pc = "attempt"
    /\ \E x \in AuthExchanges :
         LET r == validate(variant, x)
         IN  /\ attempt_number' = attempt_number + 1
             /\ exchanges' = Append(exchanges, x)
             /\ IF RetryIf(r) /\ attempt_number' < stop_after_attempt
                THEN /\ auth_pc' = "waiting"
                     /\ outcome' = outcome
                ELSE /\ auth_pc' = "done"
                     /\ outcome' = r
    /\ UNCHANGED << variant, pipeline_vars, fn, arg, result, orchestrator >>

\* wait_exponential has elapsed.
Wake ==
    /\ auth_pc = "waiting"
    /\ auth_pc' = "attempt"
    /\ UNCHANGED << variant, attempt_number, exchanges, outcome >>
    /\ UNCHANGED << pipeline_vars, fn, arg, result, orchestrator >>

AuthInit ==
    /\ Constructed
    /\ PipelineIdle
    /\ variant \in Variants
    /\ attempt_number = 0
    /\ exchanges = << >>
    /\ outcome = Absent
    /\ auth_pc = "attempt"

AuthNext == Attempt \/ Wake

AuthSpec == AuthInit /\ [][AuthNext]_vars

(***************************************************************************)
(* Properties.                                                             *)
(***************************************************************************)
\* The tasks inside the guarded section of process_problem.
InFlight ==
    { i \in DOMAIN tasks : tasks[i].pc \in {"meta", "detail", "sleep", "cooldown"} }

\* The entries appended to the accumulator since fan-out began.
PassEntries == SubSeq(failed_slugs, dlq_base + 1, Len(failed_slugs))

EntriesFor(q, slug) == { n \in DOMAIN q : q[n].slug = slug }

\* The task's metadata request carried nothing back.
MetaFailed(t) == t.answers = << "fail" >>

\* Every request of the task was made and carried its payload back.
AllCallsOk(t) == t.answers = [n \in 1..(1 + Len(t.subs)) |-> "ok"]

\* The task made requests and each of them carried its payload back.
NoCallFailed(t) ==
    /\ t.answers # << >>
    /\ \A n \in DOMAIN t.answers : t.answers[n] = "ok"

OnlyMetadataFails ==
    \A i \in DOMAIN tasks : MetaFailed(tasks[i]) \/ AllCallsOk(tasks[i])

\* C1: during any pass the number of tasks between acquiring and releasing
\* the permit never exceeds the size of the permit pool.
C1_ConcurrencyBound == Cardinality(InFlight) <= CONCURRENCY_LIMIT

\* All permits are taken while a further task waits for one.
C1_PoolExhausted ==
    /\ Cardinality(InFlight) = CONCURRENCY_LIMIT
    /\ \E i \in DOMAIN tasks : tasks[i].pc = "waiting"

\* C2: when a pass settles in which the metadata request failed for the
\* tasks of a set F and every other request succeeded, every task has
\* completed, the pass has appended exactly one entry per task of F and none
\* for any other, and every task outside F has written its output file.
C2_FailureIsolation ==
    (phase = "Settled" /\ OnlyMetadataFails) =>
        /\ \A i \in DOMAIN tasks : tasks[i].pc = "done"
        /\ \A i \in DOMAIN tasks :
             AllCallsOk(tasks[i]) =>
                /\ tasks[i].outcome = "written"
                /\ files[tasks[i].slug] # Absent
        /\ \A s \in SlugUniverse :
             Cardinality(EntriesFor(PassEntries, s)) =
             Cardinality({ i \in DOMAIN tasks :
                             tasks[i].slug = s /\ MetaFailed(tasks[i]) })

\* A harvest over three items settles with one of them failed at its
\* metadata request and the two others written.
C2_OneOfThreeFails ==
    /\ phase = "Settled"
    /\ call = "harvest_all"
    /\ Len(tasks) = 3
    /\ OnlyMetadataFails
    /\ Cardinality({ i \in DOMAIN tasks : MetaFailed(tasks[i]) }) = 1
    /\ Cardinality({ i \in DOMAIN tasks : tasks[i].outcome = "written" }) = 2
    /\ Len(failed_slugs) = 1

\* C3: no call of harvest_all ends by raising, whatever the list, metadata
\* and detail requests carry back.
C3_NeverRaises == phase # "Raised"

\* The accumulator holds, for every slug, as many entries as tasks of the
\* current pass failed for that slug.
OnlyEntriesOfThisPass ==
    \A s \in SlugUniverse :
        Cardinality(EntriesFor(failed_slugs, s)) =
        Cardinality({ i \in DOMAIN tasks :
                        tasks[i].slug = s /\ tasks[i].outcome = "failed" })

\* C4 as stated: after any call retry_failed(L) returns, the empty list
\* included, the accumulator holds only the entries of the items of L that
\* failed in this retry pass.
C4_RetryDropsStaleEntries ==
    (phase = "Settled" /\ call = "retry_failed") => OnlyEntriesOfThisPass

\* C4: after a call retry_failed(L) with a non-empty L returns, the
\* accumulator holds only the entries of the items of L that failed in this
\* retry pass.
C4_NonEmptyRetryDropsStaleEntries ==
    (phase = "Settled" /\ call = "retry_failed" /\ retry_arg # << >>) =>
        OnlyEntriesOfThisPass

\* A retry of one of the two entries an earlier pass left succeeds: the
\* accumulator is empty although the other entry was never retried.
C4_StaleEntryDropped ==
    /\ phase = "Settled"
    /\ call = "retry_failed"
    /\ Len(retry_arg) = 1
    /\ failed_file.t = "list"
    /\ Len(failed_file.v) = 2
    /\ failed_slugs = << >>

\* C5: a retry pass issues no list request, does not write manifest.json,
\* and runs exactly one task per item of the list it was given, each with
\* the slug and the summaries of its item, whatever failed_downloads.json
\* holds.
C5_RetryEntersFanOutDirectly ==
    call = "retry_failed" =>
        /\ phase \in {"FanningOut", "Settled"}
        /\ requests = << >>
        /\ responses = << >>
        /\ manifest_writes = 0
        /\ Len(tasks) = Len(retry_arg)
        /\ \A i \in DOMAIN tasks :
             /\ tasks[i].slug = retry_arg[i].slug
             /\ tasks[i].subs = retry_arg[i].submissions

\* A retry pass over a list that differs from the persisted dead-letter file
\* has settled, after an earlier harvest wrote the manifest.
C5_RetryOfPartOfTheFile ==
    /\ call = "retry_failed"
    /\ phase = "Settled"
    /\ retry_arg # << >>
    /\ failed_file.t = "list"
    /\ Len(failed_file.v) # Len(retry_arg)
    /\ manifest # Absent
    /\ \E i \in DOMAIN tasks : tasks[i].outcome = "written"

\* The summaries grouped under `slug`.
SubsOf(grouped, slug) ==
    LET i == CHOOSE j \in DOMAIN grouped : grouped[j].slug = slug
    IN  grouped[i].subs

\* C6: every entry appended in a pass carries the slug and exactly the
\* summary sequence of a task of the pass that failed; and where every
\* harvest sees the whole history and retries are fed from the accumulator,
\* every entry, after any number of retries, carries the summaries its slug
\* was grouped with.
C6_EntryKeepsSummaries ==
    /\ \A n \in DOMAIN PassEntries :
         \E i \in DOMAIN tasks :
            /\ tasks[i].outcome = "failed"
            /\ PassEntries[n].slug = tasks[i].slug
            /\ PassEntries[n].submissions = tasks[i].subs
    /\ Env.own_lists = {} =>
         \A n \in DOMAIN failed_slugs :
            failed_slugs[n].submissions =
                SubsOf(Group(Env.history), failed_slugs[n].slug)

\* After a harvest and two further calls, a retry has left an entry for
\* two-sum with the two summaries of the history, in the history's order.
C6_EntryAfterRetries ==
    /\ phase = "Settled"
    /\ call = "retry_failed"
    /\ passes = 3
    /\ harvests = 1
    /\ retry_arg # << >>
    /\ \E n \in DOMAIN failed_slugs :
         /\ failed_slugs[n].slug = "two-sum"
         /\ failed_slugs[n].submissions = << Summary(1, "two-sum"), Summary(3, "two-sum") >>

\* The ids of a summary sequence, and of the records of an output document.
SubIds(subs) == [n \in DOMAIN subs |-> subs[n].v["id"]]
RecordIds(doc) == SubIds(doc.v["submissions"].v)

\* C7: when a retry pass settles, every item of the list none of whose
\* requests failed (and that the list names once) has an output file for its
\* slug with exactly one record per captured summary, in the summaries' order,
\* and no entry in the accumulator.
C7_RetryWritesEverySummary ==
    (phase = "Settled" /\ call = "retry_failed") =>
        \A i \in DOMAIN tasks :
            ( /\ NoCallFailed(tasks[i])
              /\ \A j \in DOMAIN tasks : tasks[j].slug = tasks[i].slug => j = i ) =>
                /\ files[tasks[i].slug] # Absent
                /\ files[tasks[i].slug].v["question_name"] = Str(tasks[i].slug)
                /\ Len(files[tasks[i].slug].v["submissions"].v) = Len(tasks[i].subs)
                /\ RecordIds(files[tasks[i].slug]) = SubIds(tasks[i].subs)
                /\ EntriesFor(failed_slugs, tasks[i].slug) = {}

\* The retry of an entry for two-sum with three captured summaries has
\* written three submissions and left no entry, and made no list request.
C7_TwoSumRetried ==
    /\ phase = "Settled"
    /\ call = "retry_failed"
    /\ Len(tasks) = 1
    /\ tasks[1].slug = "two-sum"
    /\ Len(tasks[1].subs) = 3
    /\ AllCallsOk(tasks[1])
    /\ Len(files["two-sum"].v["submissions"].v) = 3
    /\ failed_slugs = << >>
    /\ requests = << >>

\* A list response that carries a page, and the page's parts.
IsPage(x) == Carries(x, "submissionList") = "ok"
PageSubs(x) == x.body.v["data"].v["submissionList"].v["submissions"].v
PageHasNext(x) == x.body.v["data"].v["submissionList"].v["hasNext"].v

\* The submissions of the pages among the first n responses, in order.
RECURSIVE ConcatPages(_, _)
ConcatPages(R, n) ==
    IF n = 0 THEN << >>
    ELSE ConcatPages(R, n - 1) \o (IF IsPage(R[n]) THEN PageSubs(R[n]) ELSE << >>)

\* C8: the walker requests the offsets 0, 20, 40, ... one at a time; it
\* requests a further page only after pages that all reported hasNext=true;
\* and when it returns after nothing but pages, the last page is the first
\* that reported hasNext=false, every request was answered, and the result
\* is the concatenation of the pages in request order.
C8_WalkerPaging ==
    /\ \A k \in DOMAIN requests : requests[k] = (k - 1) * limit
    /\ phase = "Listing" =>
         /\ Len(requests) = Len(responses) + 1
         /\ \A k \in DOMAIN responses :
              IsPage(responses[k]) /\ PageHasNext(responses[k])
    /\ (phase = "Listed" /\ \A k \in DOMAIN responses : IsPage(responses[k])) =>
         /\ Len(requests) = Len(responses)
         /\ ~PageHasNext(responses[Len(responses)])
         /\ \A k \in 1..(Len(responses) - 1) : PageHasNext(responses[k])
         /\ all_submissions = ConcatPages(responses, Len(responses))

\* hasNext=true at offsets 0 and 20, hasNext=false with an empty page at
\* offset 40: the walker returns the four summaries of the first two pages
\* after three requests.
C8_ThreeRequests ==
    /\ phase = "Listed"
    /\ requests = << 0, 20, 40 >>
    /\ Len(responses) = 3
    /\ \A k \in 1..3 : IsPage(responses[k])
    /\ PageHasNext(responses[1]) /\ PageHasNext(responses[2])
    /\ ~PageHasNext(responses[3])
    /\ PageSubs(responses[3]) = << >>
    /\ all_submissions = PageSubs(responses[1]) \o PageSubs(responses[2])
    /\ Len(all_submissions) = 4

\* C9: once a page with an empty submissions list has been received, the
\* walker issues no further list request, whatever the page's hasNext says.
C9_StopsAtEmptyPage ==
    \A k \in DOMAIN responses :
        (IsPage(responses[k]) /\ PageSubs(responses[k]) = << >>) =>
            Len(requests) <= k

\* A connection error, a non-2xx status or a body with an `errors` key.
TransportOrProtocolFailure(x) ==
    \/ x.kind = "connect_error"
    \/ /\ x.kind = "response"
       /\ (x.status < 200 \/ x.status > 299 \/ HasKey(x.body, "errors"))

\* C10: when the list request for page k fails at the transport or protocol
\* level, the walker issues no further request and returns, without
\* raising, the concatenation of the pages received before.
C10_FailedPageEndsWalk ==
    \A k \in DOMAIN responses :
        TransportOrProtocolFailure(responses[k]) =>
            /\ k = Len(responses)
            /\ Len(requests) = k
            /\ phase = "Listed"
            /\ all_submissions = ConcatPages(responses, k - 1)

\* The third list request fails after two full pages: the walker has
\* returned the four summaries of those pages.
C10_ThirdRequestFails ==
    /\ phase = "Listed"
    /\ Len(responses) = 3
    /\ TransportOrProtocolFailure(responses[3])
    /\ Len(requests) = 3
    /\ Len(all_submissions) = 4

\* The summary names a problem: its titleSlug is a non-empty string.
NamedSlug(sub) ==
    /\ HasKey(sub, "titleSlug")
    /\ sub.v["titleSlug"].t = "str"
    /\ sub.v["titleSlug"].v # ""

\* The positions of S whose summary names `slug`.
Occurrences(S, slug) ==
    { n \in DOMAIN S : NamedSlug(S[n]) /\ S[n].v["titleSlug"].v = slug }

FirstOccurrence(S, slug) ==
    CHOOSE n \in Occurrences(S, slug) : \A m \in Occurrences(S, slug) : n <= m

\* The subsequence of S whose summaries name `slug`.
WithSlug(S, slug) ==
    LET Names(sub) == NamedSlug(sub) /\ sub.v["titleSlug"].v = slug
    IN  SelectSeq(S, Names)

\* C11: the grouping of a summary sequence S has one group per non-empty
\* slug occurring in S, the groups are ordered by the first occurrence of
\* their slug in S, each group is the subsequence of S with its slug (so a
\* summary with a missing, null or empty slug is in no group), and grouping
\* S again gives the same groups in the same order.
C11_Grouping ==
    (fn = "group" /\ result.t = "groups") =>
        LET S == arg.v
            G == result.v
        IN  /\ { G[i].slug : i \in DOMAIN G } =
                 { S[n].v["titleSlug"].v : n \in { m \in DOMAIN S : NamedSlug(S[m]) } }
            /\ \A i, j \in DOMAIN G :
                  i < j => FirstOccurrence(S, G[i].slug) < FirstOccurrence(S, G[j].slug)
            /\ \A i \in DOMAIN G : G[i].subs = WithSlug(S, G[i].slug)
            /\ Group(S) = G

\* A sequence of four summaries, one of them without a usable slug and two
\* of two-sum apart from each other, has been grouped into two groups.
C11_TwoGroupsOfFour ==
    /\ fn = "group"
    /\ result.t = "groups"
    /\ Len(arg.v) = 4
    /\ \E n \in DOMAIN arg.v : ~NamedSlug(arg.v[n])
    /\ Len(result.v) = 2
    /\ result.v[2].slug = "two-sum"
    /\ Len(result.v[2].subs) = 2
    /\ NamedSlug(arg.v[4]) /\ arg.v[4].v["titleSlug"].v = "two-sum"
    /\ ~(NamedSlug(arg.v[3]) /\ arg.v[3].v["titleSlug"].v = "two-sum")

\* The task's metadata request has been answered and carried nothing back.
MetaCarriedNothing(t) == t.answers # << >> /\ t.answers[1] = "fail"

\* C12: a task whose metadata request yields no data issues no detail
\* request and writes no output file (in a first pass the file of its slug
\* stays absent), and the pass records exactly one entry, with an error
\* message, for every task that failed.
C12_MetadataFailureAbortsItem ==
    /\ \A i \in DOMAIN tasks :
          MetaCarriedNothing(tasks[i]) =>
             /\ Len(tasks[i].answers) = 1
             /\ tasks[i].k = 0
             /\ tasks[i].outcome = "failed"
             /\ passes = 1 => files[tasks[i].slug] = Absent
             /\ EntriesFor(PassEntries, tasks[i].slug) # {}
    /\ \A s \in SlugUniverse :
          Cardinality(EntriesFor(PassEntries, s)) =
          Cardinality({ i \in DOMAIN tasks :
                          tasks[i].slug = s /\ tasks[i].outcome = "failed" })
    /\ \A n \in DOMAIN failed_slugs : failed_slugs[n].error # ""

\* A harvest has settled in which the metadata request of an item with two
\* summaries yielded no data while another item was written.
C12_ItemAborted ==
    /\ phase = "Settled"
    /\ call = "harvest_all"
    /\ \E i \in DOMAIN tasks :
          /\ MetaCarriedNothing(tasks[i])
          /\ Len(tasks[i].subs) = 2
          /\ files[tasks[i].slug] = Absent
    /\ \E j \in DOMAIN tasks : tasks[j].outcome = "written"
    /\ Len(failed_slugs) = 1

\* C13: every output file holds a problem_metadata document, never null.
C13_MetadataPresent ==
    \A s \in SlugUniverse :
        files[s] # Absent => files[s].v["problem_metadata"].t = "dict"

\* The task's metadata request carried the problem document back.
MetaOk(t) == t.answers # << >> /\ t.answers[1] = "ok"

\* C14: a task whose metadata was fetched never fails, whatever its detail
\* requests carry back; a submission whose detail request carried no detail
\* document is written as its bare summary.
C14_DetailFailureKeepsItem ==
    \A i \in DOMAIN tasks : MetaOk(tasks[i]) => tasks[i].outcome # "failed"

\* The tasks of this pass that wrote the file of their slug and were the
\* only task of the pass for that slug: the file holds what they wrote.
Writers ==
    { i \in DOMAIN tasks :
        /\ tasks[i].outcome = "written"
        /\ \A j \in DOMAIN tasks : tasks[j].slug = tasks[i].slug => j = i }

\* The records of the file task i wrote.
Records(i) == files[tasks[i].slug].v["submissions"].v

C16_MergePrecedence ==
    \A i \in Writers :
        \A n \in DOMAIN tasks[i].subs :
            tasks[i].answers[n + 1] = "ok" =>
                LET s == tasks[i].subs[n]
                    d == _clean_data(DetailDoc(s.v["id"]))
                    r == Records(i)[n]
                IN  /\ DOMAIN r.v = DOMAIN s.v \cup DOMAIN d.v
                    /\ \A k \in DOMAIN d.v : r.v[k] = d.v[k]
                    /\ \A k \in DOMAIN s.v \ DOMAIN d.v : r.v[k] = s.v[k]

\* A record has been written for a summary and a detail document that both
\* have a `runtime`: it holds the detail's, and the summary's titleSlug.
C16_RuntimeFromDetail ==
    \E i \in Writers :
        /\ tasks[i].answers[2] = "ok"
        /\ tasks[i].subs[1].v["runtime"] = Str("list")
        /\ Records(i)[1].v["runtime"] = Str("detail")
        /\ Records(i)[1].v["titleSlug"] = Str(tasks[i].slug)
        /\ HasKey(Records(i)[1], "code")

\* The keys of the maps of a tree, at any depth.
RECURSIVE KeysOf(_)
KeysOf(T) ==
    IF T.t = "dict"
    THEN DOMAIN T.v \cup UNION { KeysOf(T.v[k]) : k \in DOMAIN T.v }
    ELSE IF T.t = "list"
    THEN UNION { KeysOf(T.v[i]) : i \in DOMAIN T.v }
    ELSE {}

\* _clean_data has returned.
Cleaned == fn = "_clean_data" /\ result.t # "absent"

\* C17: no key of EXCLUDED_FIELDS is a key of a map at any depth of
\* _clean_data(T), maps inside sequences included.
C17_RedactionComplete == Cleaned => KeysOf(result) \cap EXCLUDED_FIELDS = {}

\* A tree with a forbidden key in a map inside a sequence inside a map has
\* been redacted; the map inside the sequence kept its other entry.
C17_ForbiddenKeyInsideSequence ==
    /\ Cleaned
    /\ arg = Dict([user |-> List(<< Dict([avatar |-> Num(1), code |-> None]) >>)])
    /\ result = Dict([user |-> List(<< Dict([code |-> None]) >>)])

\* C18: redacting a redacted tree changes nothing.
C18_RedactionIdempotent == Cleaned => _clean_data(result) = result

\* A sequence of two different elements, the first a map with a forbidden
\* key, has been redacted.
C18_RedactedSequenceOfTwo ==
    /\ Cleaned
    /\ arg = List(<< Dict([avatar |-> Num(1)]), Num(1) >>)
    /\ result = List(<< EmptyDict, Num(1) >>)

\* R is T without the entries of its maps whose key is forbidden, and
\* nothing else is changed.
RECURSIVE OnlyForbiddenRemoved(_, _)
OnlyForbiddenRemoved(T, R) ==
    IF T.t = "dict"
    THEN /\ R.t = "dict"
         /\ DOMAIN R.v = DOMAIN T.v \ EXCLUDED_FIELDS
         /\ \A k \in DOMAIN R.v : OnlyForbiddenRemoved(T.v[k], R.v[k])
    ELSE IF T.t = "list"
    THEN /\ R.t = "list"
         /\ Len(R.v) = Len(T.v)
         /\ \A i \in DOMAIN T.v : OnlyForbiddenRemoved(T.v[i], R.v[i])
    ELSE R = T

\* C19: in _clean_data(T) every map keeps exactly its keys that are not
\* forbidden, with redacted values, every sequence keeps its length and the
\* order of its elements, every scalar is unchanged; a tree without
\* forbidden key is returned as it is.
C19_RedactionRemovesNothingElse ==
    Cleaned =>
        /\ OnlyForbiddenRemoved(arg, result)
        /\ KeysOf(arg) \cap EXCLUDED_FIELDS = {} => result = arg

\* A map without forbidden key, with a sequence of two and, inside it, a map
\* with a null entry, has been redacted.
C19_NothingToRemove ==
    /\ Cleaned
    /\ arg = Dict([code |-> Num(1), user |-> List(<< None, Dict([code |-> None]) >>)])
    /\ result = arg

\* C20: for every exchange that answered a request, _gql_request returns:
\* None when the connection failed, the status is not 2xx or the document
\* has an `errors` key, the document otherwise; it never raises.
C20_TransportBoundary ==
    \A n \in DOMAIN responses :
        LET x == responses[n]
            r == _gql_request(x)
        IN  /\ r.ret = "value"
            /\ IF \/ x.kind = "connect_error"
                  \/ x.status < 200 \/ x.status > 299
                  \/ HasKey(x.body, "errors")
               THEN r.val = None
               ELSE r.val = x.body

\* The call was a pass: it fanned out (a retry_failed over the empty list
\* returns at once).
PassRan == call = "harvest_all" \/ (call = "retry_failed" /\ retry_arg # << >>)

\* C21: when a pass has settled with a non-empty dead-letter set,
\* failed_downloads.json has been written by this call and holds exactly the
\* list the pass reports; and the file is written only once all tasks of
\* the pass are done.
C21_DeadLetterFileMatchesReport ==
    /\ (phase = "Settled" /\ PassRan /\ failed_slugs # << >>) =>
            /\ failed_writes = 1
            /\ failed_file = List(failed_slugs)
    /\ failed_writes > 0 =>
            /\ phase = "Settled"
            /\ \A i \in DOMAIN tasks : tasks[i].pc = "done"

\* A retry pass has settled with fewer entries than the file held before
\* and has overwritten it.
C21_FileOverwrittenByRetry ==
    /\ phase = "Settled"
    /\ call = "retry_failed"
    /\ Len(failed_slugs) = 1
    /\ failed_before.t = "list"
    /\ Len(failed_before.v) = 2
    /\ failed_file = List(failed_slugs)

\* C22: a pass that settles with an empty dead-letter set has not written
\* failed_downloads.json; the file is as it was when the call began.
C22_EmptySetLeavesFile ==
    (phase = "Settled" /\ PassRan /\ failed_slugs = << >>) =>
        /\ failed_writes = 0
        /\ failed_file = failed_before

\* A retry in which every item succeeded has settled; the file still lists
\* the failures of the earlier pass.
C22_StaleFileAfterSuccessfulRetry ==
    /\ phase = "Settled"
    /\ call = "retry_failed"
    /\ retry_arg # << >>
    /\ failed_slugs = << >>
    /\ failed_file.t = "list"
    /\ failed_file.v = retry_arg

\* q lists the non-empty slugs of S, each once, in the order of their first
\* occurrence in S.
FirstSeenOrder(q, S) ==
    /\ { q[i].v : i \in DOMAIN q } =
         { S[n].v["titleSlug"].v : n \in { m \in DOMAIN S : NamedSlug(S[m]) } }
    /\ \A i, j \in DOMAIN q :
          i < j => FirstOccurrence(S, q[i].v) < FirstOccurrence(S, q[j].v)

\* In a harvest_all call the manifest is not written before the walker has
\* returned and is written once from then on; it lists the slugs of the
\* launched tasks in their order, with their number, whatever the tasks do.
ManifestWrittenOnce ==
    call = "harvest_all" =>
        /\ phase \in {"Listing", "Listed", "Raised"} => manifest_writes = 0
        /\ phase \in {"FanningOut", "Settled"} =>
              /\ manifest_writes = 1
              /\ manifest.v["problems"].v = [i \in DOMAIN tasks |-> Str(tasks[i].slug)]
              /\ manifest.v["count"] = Num(Len(tasks))

\* The step that writes the manifest is taken when the walker has returned
\* S; it writes the slugs of S in first-seen order and their number, and
\* after it no task has issued a request yet.
ManifestWrittenBeforeFanOut ==
    manifest_writes' = manifest_writes + 1 =>
        /\ phase = "Listed"
        /\ FirstSeenOrder(manifest'.v["problems"].v, all_submissions)
        /\ manifest'.v["count"] = Num(Len(manifest'.v["problems"].v))
        /\ \A i \in DOMAIN tasks' :
              tasks'[i].pc = "waiting" /\ tasks'[i].answers = << >>

\* C23: every harvest_all call writes manifest.json exactly once, after
\* listing and grouping and before any task issues a request; the manifest
\* holds the discovered slugs in first-seen order and their count, and does
\* not change whatever the tasks do afterwards.
C23_ManifestOncePerHarvest ==
    []ManifestWrittenOnce /\ [][ManifestWrittenBeforeFanOut]_vars

\* A harvest has settled with a failed item and a written one; the manifest
\* lists three slugs, two-sum first.
C23_ManifestOfThree ==
    /\ call = "harvest_all"
    /\ phase = "Settled"
    /\ manifest.v["count"] = Num(3)
    /\ manifest.v["problems"].v[1] = Str("two-sum")
    /\ \E i \in DOMAIN tasks : tasks[i].outcome = "failed"
    /\ \E i \in DOMAIN tasks : tasks[i].outcome = "written"

\* Every task of the pass has completed, with its file written or with a
\* dead-letter entry.
AllTasksCompleted ==
    \A i \in DOMAIN tasks :
        /\ tasks[i].pc = "done"
        /\ \/ tasks[i].outcome = "written" /\ files[tasks[i].slug] # Absent
           \/ tasks[i].outcome = "failed"
              /\ EntriesFor(failed_slugs, tasks[i].slug) # {}

\* C24: when every request and every sleep returns and the event loop runs
\* every task that can run, a pass that has fanned out settles: every task
\* completes, written or dead-lettered, none waits for a permit for ever,
\* and the call returns.
C24_PassSettles ==
    (phase = "FanningOut") ~> (phase = "Settled" /\ AllTasksCompleted)

\* A pass over more items than there are permits has settled.
C24_MoreItemsThanPermits ==
    /\ phase = "Settled"
    /\ Len(tasks) > CONCURRENCY_LIMIT
    /\ AllTasksCompleted

\* A retry pass over a non-empty list has returned.
RetryReturned ==
    /\ phase = "Settled"
    /\ retry_arg # << >>
    /\ call \in { "retry_failed", "declined", "loop_ended" }

\* C25: when a retry pass has returned, every item of the list it was given
\* whose metadata request failed in that pass has an entry in the
\* accumulator with the summaries the list held for it; in the command
\* line's loop every entry holds the summaries the harvest captured for its
\* slug; and the loop is left by the failing test of the while statement
\* only when the accumulator is empty, otherwise by the user's refusal.
C25_FailingItemReappears ==
    /\ RetryReturned =>
          \A i \in DOMAIN tasks :
              MetaFailed(tasks[i]) =>
                  \E n \in DOMAIN failed_slugs :
                      /\ failed_slugs[n].slug = retry_arg[i].slug
                      /\ failed_slugs[n].submissions = retry_arg[i].submissions
    /\ Env.loop =>
          \A n \in DOMAIN failed_slugs :
              failed_slugs[n].submissions =
                  WithSlug(Env.history, failed_slugs[n].slug)
    /\ call = "loop_ended" => failed_slugs = << >>
    /\ call = "declined" => failed_slugs # << >>

\* The command line's loop was left by the user's refusal after its last
\* retry pass, and two-sum, whose metadata request failed in the harvest and
\* in every retry, is still listed with its two summaries.
C25_FailedInEveryPass ==
    /\ Env.loop
    /\ call = "declined"
    /\ passes = MaxPasses
    /\ \E n \in DOMAIN failed_slugs :
          /\ failed_slugs[n].slug = "two-sum"
          /\ Len(failed_slugs[n].submissions) = 2
    /\ \E i \in DOMAIN tasks : tasks[i].outcome = "written"
\* The harvest running was started after a harvest that was killed.
Resumed == Env.loop /\ call = "harvest_all" /\ harvests = 2

\* C26: in a harvest started after a killed one, no task asks the service
\* for an item whose output file the killed harvest had already written.
C26_PersistedItemsNotFetchedAgain ==
    Resumed =>
        \A i \in DOMAIN tasks :
            tasks[i].pc = "meta" => files[tasks[i].slug] = Absent
\* C27: no two tasks of a fan-out have the same slug.
C27_UniqueSlugs ==
    \A i, j \in DOMAIN tasks : tasks[i].slug = tasks[j].slug => i = j
\* The task is inside the section the semaphore guards.
Holding(t) == t.pc \in { "meta", "detail", "sleep", "cooldown" }

\* C28: the free permits are the pool less one per task inside the guarded
\* section, never fewer than none; a task that has not entered the section
\* has made no request and a task that made a request is in the section or
\* has left it; and whenever no pass is running the pool is full.
C28_PermitsBalanced ==
    /\ semaphore \in 0..CONCURRENCY_LIMIT
    /\ semaphore = CONCURRENCY_LIMIT
                       - Cardinality({ i \in DOMAIN tasks : Holding(tasks[i]) })
    /\ \A i \in DOMAIN tasks :
          /\ tasks[i].pc = "waiting" =>
                 tasks[i].answers = << >> /\ tasks[i].outcome = "none"
          /\ tasks[i].pc = "done" => tasks[i].outcome \in { "written", "failed" }
    /\ phase # "FanningOut" => semaphore = CONCURRENCY_LIMIT

\* A pass with more items than permits has settled with the pool full: one
\* item was written, the metadata request of another yielded nothing and a
\* third failed by a TypeError.
C28_EveryExitPathTaken ==
    /\ phase = "Settled"
    /\ Len(tasks) > CONCURRENCY_LIMIT
    /\ semaphore = CONCURRENCY_LIMIT
    /\ \E i \in DOMAIN tasks : tasks[i].outcome = "written"
    /\ \E n \in DOMAIN failed_slugs :
          failed_slugs[n].error = "Failed to fetch problem metadata"
    /\ \E n \in DOMAIN failed_slugs : failed_slugs[n].error = TypeErrorMsg
\* The tasks of the running pass that have failed.
FailedTasks == { i \in DOMAIN tasks : tasks[i].outcome = "failed" }

\* The pass holds one entry per failed task, and every entry is the whole
\* record of one failed task.
EntriesMatchFailedTasks ==
    /\ dlq_base <= Len(failed_slugs)
    /\ Len(PassEntries) = Cardinality(FailedTasks)
    /\ \A n \in DOMAIN PassEntries :
          /\ DOMAIN PassEntries[n] = { "slug", "error", "submissions" }
          /\ PassEntries[n].error # ""
          /\ \E i \in FailedTasks :
                /\ PassEntries[n].slug = tasks[i].slug
                /\ PassEntries[n].submissions = tasks[i].subs

\* A step of a fan-out leaves the accumulator alone or appends one entry to
\* it, and it appends exactly when one task turns failed.
AppendsOneEntry ==
    (phase = "FanningOut" /\ phase' = "FanningOut") =>
        \/ /\ failed_slugs' = failed_slugs
           /\ \A i \in DOMAIN tasks :
                 tasks'[i].outcome = "failed" => tasks[i].outcome = "failed"
        \/ /\ Len(failed_slugs') = Len(failed_slugs) + 1
           /\ SubSeq(failed_slugs', 1, Len(failed_slugs)) = failed_slugs
           /\ Cardinality({ i \in DOMAIN tasks :
                              /\ tasks[i].outcome = "none"
                              /\ tasks'[i].outcome = "failed" }) = 1

\* C29: under every interleaving of the tasks, each failing task appends
\* one whole entry to the accumulator and no append is lost: at every moment
\* of a pass, and so when it settles, the entries added in the pass are as
\* many as the tasks that failed, each the {slug, error, submissions} record
\* of one of them.
C29_AppendsNotLost == []EntriesMatchFailedTasks /\ [][AppendsOneEntry]_vars

\* A pass has settled in which two tasks failed and the later task's entry
\* was appended first, while a third item was written.
C29_EntriesOutOfTaskOrder ==
    /\ phase = "Settled"
    /\ Len(PassEntries) = 2
    /\ \E i, j \in FailedTasks :
          /\ i < j
          /\ PassEntries[1].slug = tasks[j].slug
          /\ PassEntries[2].slug = tasks[i].slug
          /\ tasks[i].slug # tasks[j].slug
    /\ \E i \in DOMAIN tasks : tasks[i].outcome = "written"
\* The submissionIds of the first k summaries of the task, in their order.
IdsOfFirst(t, k) == [n \in 1..k |-> t.subs[n].v["id"]]

\* The requests of one task so far: answered (the metadata request first)
\* and issued.
OneItemInOrder(t) ==
    /\ t.asked = IdsOfFirst(t, t.k)
    /\ t.pc \in { "waiting", "meta" } => t.k = 0 /\ t.answers = << >>
    /\ t.k > 0 => t.answers # << >> /\ t.answers[1] # "fail"
    /\ t.pc = "detail" => t.k > 0 /\ Len(t.answers) = t.k
    /\ t.pc = "sleep" => t.k > 0 /\ Len(t.answers) = t.k + 1
    /\ Len(t.answers) <= 1 + Len(t.asked)

\* A step issues the next detail request of a task only when every request
\* the task issued before has been answered.
IssuedAfterAnswer ==
    \A i \in DOMAIN tasks :
        (phase' = "FanningOut" /\ i \in DOMAIN tasks'
            /\ Len(tasks'[i].asked) > Len(tasks[i].asked)) =>
                /\ Len(tasks'[i].asked) = Len(tasks[i].asked) + 1
                /\ Len(tasks'[i].answers) = 1 + Len(tasks[i].asked)

\* C30: a task issues its first detail request only after its metadata
\* request was answered, and not with a failure; its detail requests ask
\* for the submissions of its summaries in the order of the summaries; and
\* it issues the next one only after the one before was answered.
C30_ItemRequestsInOrder ==
    /\ [](\A i \in DOMAIN tasks : OneItemInOrder(tasks[i]))
    /\ [][IssuedAfterAnswer]_vars

\* The later of two tasks is at the detail request of its second summary
\* while the earlier one still waits for its metadata.
C30_LaterItemAhead ==
    \E i, j \in DOMAIN tasks :
        /\ i < j
        /\ tasks[i].pc = "meta"
        /\ tasks[j].pc = "detail"
        /\ tasks[j].k = 2
        /\ Len(tasks[j].asked) = 2
        /\ tasks[j].asked[1] # tasks[j].asked[2]
\* The record a task derives from its n-th summary, given what the detail
\* request for it carried back.
RecordOf(t, n) ==
    IF t.answers[n + 1] = "ok"
    THEN Merge(t.subs[n], _clean_data(DetailDoc(t.subs[n].v["id"])))
    ELSE t.subs[n]

\* The document a task that wrote its file derives from its own slug, its
\* own summaries and the answers to its own requests.
OwnDocument(t) ==
    Dict([ question_name    |-> Str(t.slug),
           problem_metadata |-> IF t.answers[1] = "ok"
                                THEN _clean_data(QuestionDoc(t.slug))
                                ELSE None,
           submissions      |-> List([n \in DOMAIN t.subs |-> RecordOf(t, n)]) ])

\* C31: the file of a slug that a task of the pass wrote is the document
\* of a task of the pass with that slug: it names the slug, holds the
\* metadata answered for the slug and one record per summary of the item,
\* the n-th derived from the n-th summary; and every file ever written
\* names its own slug and holds only records of summaries with that slug.
C31_FileHoldsOwnItem ==
    /\ \A i \in DOMAIN tasks :
          tasks[i].outcome = "written" =>
              /\ Len(tasks[i].answers) = 1 + Len(tasks[i].subs)
              /\ \E j \in DOMAIN tasks :
                    /\ tasks[j].slug = tasks[i].slug
                    /\ tasks[j].outcome = "written"
                    /\ files[tasks[i].slug] = OwnDocument(tasks[j])
    /\ \A s \in SlugUniverse :
          files[s] # Absent =>
              /\ files[s].v["question_name"] = Str(s)
              /\ files[s].v["problem_metadata"] # None =>
                     files[s].v["problem_metadata"].v["titleSlug"] = Str(s)
              /\ \A n \in DOMAIN files[s].v["submissions"].v :
                     files[s].v["submissions"].v[n].v["titleSlug"] = Str(s)

\* The file of a later item, with its one merged record, was written while
\* an earlier item with two summaries was still at its second detail
\* request and had no file yet.
C31_WrittenWhileAnotherRuns ==
    \E i, j \in DOMAIN tasks :
        /\ i < j
        /\ tasks[i].pc = "detail"
        /\ tasks[i].k = 2
        /\ files[tasks[i].slug] = Absent
        /\ tasks[j].outcome = "written"
        /\ tasks[j].answers = << "ok", "ok" >>
        /\ files[tasks[j].slug] = OwnDocument(tasks[j])
\* C32: in a pass one task runs per item, so no two tasks have the same
\* slug and a harvest runs as many tasks as its manifest lists; a task
\* makes one metadata request and at most one detail request per summary
\* of its item, one for each when it wrote its file; and the file of a slug
\* is written by at most one task of the pass.
C32_EachItemProcessedOnce ==
    /\ \A i, j \in DOMAIN tasks :
          tasks[i].slug = tasks[j].slug => i = j
    /\ (call = "harvest_all" /\ phase \in { "FanningOut", "Settled" }) =>
          Len(tasks) = manifest.v["count"].v
    /\ \A i \in DOMAIN tasks :
          /\ Len(tasks[i].answers) <= 1 + Len(tasks[i].subs)
          /\ tasks[i].asked = IdsOfFirst(tasks[i], Len(tasks[i].asked))
          /\ tasks[i].outcome = "written" =>
                 Len(tasks[i].asked) = Len(tasks[i].subs)
    /\ \A s \in SlugUniverse :
          Cardinality({ i \in DOMAIN tasks :
                          tasks[i].slug = s /\ tasks[i].outcome = "written" }) <= 1
\* In a harvest_all call no task exists while the walker runs, no list
\* request is outstanding once the tasks run, and the call has settled, and
\* the dead-letter file has been written, only with every task done.
HarvestPhases ==
    call = "harvest_all" =>
        /\ phase \in { "Listing", "Listed" } =>
              /\ tasks = << >>
              /\ failed_writes = 0
        /\ phase \in { "FanningOut", "Settled" } =>
              /\ requests = << >>
              /\ Len(requests) = Len(responses)
        /\ (phase = "Settled" \/ failed_writes > 0) =>
              /\ phase = "Settled"
              /\ \A i \in DOMAIN tasks : tasks[i].pc = "done"

\* The steps of a harvest_all call: the walker's first request is issued by
\* the step that begins the call and by no other; the tasks are created by
\* a step taken when the walker has returned; and the call settles by a
\* step taken in the fan-out when every task is done.
HarvestOrder ==
    /\ (requests = << >> /\ requests' # << >>) =>
          /\ call' = "harvest_all"
          /\ passes' = passes + 1
          /\ phase' = "Listing"
          /\ requests' = << 0 >>
    /\ (call' = "harvest_all" /\ phase # "Listing" /\ phase' = "Listing") =>
          passes' = passes + 1
    /\ (call' = "harvest_all" /\ phase # "FanningOut" /\ phase' = "FanningOut") =>
          /\ phase = "Listed"
          /\ call = "harvest_all"
          /\ \A i \in DOMAIN tasks' : tasks'[i].answers = << >>
    /\ (call' = "harvest_all" /\ passes' = passes /\ phase # "Settled"
            /\ phase' = "Settled") =>
          /\ phase = "FanningOut"
          /\ \A i \in DOMAIN tasks : tasks[i].pc = "done"
          /\ tasks' = tasks
    /\ (phase = "FanningOut" /\ phase' = "FanningOut") =>
          requests' = requests /\ responses' = responses

\* C33: a harvest_all call lists, then fans out, then settles: the walker
\* is started once, by the call, and has returned before any task exists;
\* no list request is issued while the tasks run; and the dead-letter list
\* is written and the call returns only when every task is done.
C33_ListingThenFanOutThenSettled == []HarvestPhases /\ [][HarvestOrder]_vars

\* A harvest of three items has settled: one failed and the dead-letter file
\* was written, another was written with both its records.
C33_HarvestWentThroughAllPhases ==
    /\ call = "harvest_all"
    /\ phase = "Settled"
    /\ manifest_writes = 1
    /\ Len(tasks) = 3
    /\ failed_writes = 1
    /\ \E i \in DOMAIN tasks :
          tasks[i].outcome = "written" /\ Len(tasks[i].asked) = 2
\* The tasks that write their file in this step.
Writing == { i \in DOMAIN tasks :
               /\ i \in DOMAIN tasks'
               /\ tasks[i].outcome = "none"
               /\ tasks'[i].outcome = "written" }

\* A step in which a task writes its file leaves in the file of its slug
\* the document of that task alone, whatever the file held, and so the same
\* document when the file held the document of the same summaries and
\* answers; it changes no other file, and no other step changes a file.
WriteReplacesFile ==
    /\ \A i \in Writing :
          /\ files'[tasks[i].slug] = OwnDocument(tasks'[i])
          /\ files[tasks[i].slug] = OwnDocument(tasks'[i]) => files' = files
          /\ \A s \in SlugUniverse \ { tasks[i].slug } : files'[s] = files[s]
    /\ Writing = {} => files' = files

\* C34: when process_problem succeeds for a slug, <slug>.json holds the
\* document of that call and nothing of what it held before; written again
\* from the same summaries and the same answers it holds the same content.
C34_RewriteReplaces == [][WriteReplacesFile]_vars

\* Started again after it was killed, the program has written two-sum.json
\* over the file the killed run left: the file now holds a bare second
\* record, of a submission whose detail request failed this time.
C34_FileWrittenAgain ==
    /\ Resumed
    /\ \E i \in DOMAIN tasks :
          /\ tasks[i].slug = "two-sum"
          /\ tasks[i].outcome = "written"
          /\ tasks[i].overwrote
          /\ tasks[i].answers = << "ok", "ok", "fail" >>
          /\ files["two-sum"] = OwnDocument(tasks[i])
\* C35: the list a harvest_all call returns holds one entry for each task
\* of the call that failed, and no other entry.
C35_HarvestReportsOwnFailures ==
    (phase = "Settled" /\ call = "harvest_all") =>
        /\ Len(failed_slugs) = Cardinality(FailedTasks)
        /\ \A s \in SlugUniverse :
              Cardinality(EntriesFor(failed_slugs, s)) =
              Cardinality({ i \in FailedTasks : tasks[i].slug = s })
\* C36: no output file holds a key of EXCLUDED_FIELDS at any depth, in its
\* metadata or in a record, merged or bare, written by a harvest or a retry.
C36_NoForbiddenKeyInFiles ==
    \A s \in SlugUniverse :
        files[s] # Absent => KeysOf(files[s]) \cap EXCLUDED_FIELDS = {}

\* A retry has written a file with the problem document, two merged
\* records and a bare summary; the documents the service sent held
\* forbidden keys, the detail document two levels down.
C36_RetryWroteMergedAndBare ==
    /\ call = "retry_failed"
    /\ \E i \in DOMAIN tasks :
          /\ tasks[i].outcome = "written"
          /\ tasks[i].answers = << "ok", "ok", "fail", "ok" >>
          /\ files[tasks[i].slug] = OwnDocument(tasks[i])
          /\ "codeSnippets" \in KeysOf(QuestionDoc(tasks[i].slug))
          /\ { "stdOutput", "userAvatar" } \subseteq
                 KeysOf(DetailDoc(tasks[i].subs[1].v["id"]))
          /\ "profile" \in KeysOf(files[tasks[i].slug])

\* C37: run_pipeline never hands manifest.json or failed_downloads.json to
\* parse_file (and so never loads them): only problem output files are
\* input of the ETL run.
C37_CheckpointFilesNotInput ==
    \A k \in DOMAIN parse_calls : parse_calls[k].file \notin CheckpointNames

\* The run is over and every file of the loop has its log entry.
PipelineDone == etl_pc = "done" /\ data_dir # Absent

Loaded == { parse_calls[k].file : k \in { j \in DOMAIN parse_calls :
                                            parse_calls[j].result = "loaded" } }

Errored == { parse_calls[k].file : k \in { j \in DOMAIN parse_calls :
                                    parse_calls[j].result \in { "parse_error", "load_error" } } }

\* The problem of a file, and the rows that loading the file commits.
ProblemOf(name) ==
    IF name \in ProblemFileNames THEN QuestionIdOfFile[name] ELSE "none"

RowsOfFile(name) ==
    IF name \in CheckpointNames THEN {}
    ELSE { ProblemRow(ProblemOf(name)),
           SubmissionRow(ProblemOf(name), ProblemOf(name)) }

\* C38: a file whose parsing or loading fails is rolled back and skipped:
\* between two files the session holds no pending change, no row of a
\* failing file is ever committed, and when run_pipeline returns every
\* file of its input has been taken up, each file that did not fail with
\* its rows committed.
C38_FailingFileIsolated ==
    /\ etl_pc \in { "loop", "done" } => session = {}
    /\ \A name \in Errored : \A r \in database : r.problem # ProblemOf(name)
    /\ PipelineDone =>
         /\ [k \in DOMAIN parse_calls |-> parse_calls[k].file] = json_files
         /\ Loaded \cup Errored = { json_files[k] : k \in DOMAIN json_files }
         /\ \A name \in Loaded : RowsOfFile(name) \subseteq database

\* A run in which the loading of a file failed with changes pending in the
\* session, a file after it was loaded, and run_pipeline returned.
C38_LoadedAfterFailedLoad ==
    /\ PipelineDone
    /\ \E i, j \in DOMAIN parse_calls :
         /\ i < j
         /\ parse_calls[i].result = "load_error"
         /\ \E r \in parse_calls[i].pending : r.table = "problems"
         /\ parse_calls[j].result = "loaded"

\* The exchange is a rejection: an HTTP error status, an answer that carries
\* GraphQL errors, an answer that does not validate as a userStatus
\* document, or a session that is not signed in.
Rejection(x) ==
    /\ x.kind = "response"
    /\ \/ x.status < 200 \/ x.status > 299
       \/ /\ x.body.t = "dict"
          /\ \/ HasKey(x.body, "errors")
             \/ ~ModelValidates(x.body)
             \/ ~UserStatusOf(x.body).v["isSignedIn"].v

\* At most three attempts, each but the last answered by a request error.
AttemptsBounded ==
    /\ attempt_number <= stop_after_attempt
    /\ Len(exchanges) = attempt_number
    /\ \A k \in 1..(Len(exchanges) - 1) : exchanges[k] \in RequestErrors
    /\ auth_pc = "waiting" => exchanges[Len(exchanges)] \in RequestErrors

\* A request error ends validate() only as the third, and is re-raised.
ThirdRequestErrorReraised ==
    (auth_pc = "done" /\ exchanges[Len(exchanges)] \in RequestErrors) =>
        attempt_number = stop_after_attempt /\ outcome = Raises("RequestError")

\* C39: validate() makes at most 3 attempts and is attempted again only
\* after a request error; a rejection (HTTP error status, GraphQL errors, an
\* answer that fails validation, a session not signed in) ends it on the
\* attempt where it occurs with AuthenticationError; the third request
\* error is re-raised.
C39_RetryOnlyAfterRequestError ==
    /\ AttemptsBounded
    /\ ThirdRequestErrorReraised
    /\ \A k \in DOMAIN exchanges :
         Rejection(exchanges[k]) =>
            /\ k = Len(exchanges)
            /\ auth_pc = "done"
            /\ outcome = Raises("AuthenticationError")
====
